---- MODULE Spec2Model ----
(***************************************************************************)
(* Rating pipeline and cache store of the rating application.              *)
(*                                                                         *)
(*   utils/cache_manager.py   CacheManager   (memory map, data files,      *)
(*                                            index file, TTL, eviction)   *)
(*   models/resource.py       Resource       (identity, scores, clock)     *)
(*   core/data_processor.py   DataProcessor  (validation, normalisation)   *)
(*   core/metrics_collector.py MetricsCollector                            *)
(*   core/rating_calculator.py RatingCalculator                            *)
(*   core/rating_service.py   RatingService  (rate_resource,               *)
(*                                            bulk_rate_resources)         *)
(*                                                                         *)
(* Time is counted in hours.  Python floats are held as fixed-point        *)
(* integers with Scale units per 1.0.  Every Python value that the code    *)
(* inspects by type is a tagged record: [str |-> s], [num |-> n],          *)
(* [list |-> seq], [dict |-> record], [obj |-> name] (an object json       *)
(* cannot serialise).                                                      *)
(***************************************************************************)
EXTENDS Integers, Sequences, FiniteSets, TLC

VARIABLES
    now,            \* datetime.now() / time(), in hours
    memory_cache,   \* CacheManager.memory_cache: insertion-ordered key -> (data, expiry)
    files,          \* the data files <key>.json of the cache directory: key -> content
    index,          \* the file cache_index.json of the cache directory
    req,            \* the rate_resource() calls, one per caller
    bulk,           \* the bulk_rate_resources() call
    op,             \* the last store operation and what it returned (history)
    calls,          \* the number of calls the callers have made so far
    calc,           \* a call of a function of RatingCalculator and its outcome
    res,            \* the Resource a caller holds and calls the methods of, and
                    \* the keys of the cache entries that hold its dicts
    thr,            \* cache_lock and the threads calling the store concurrently
    disk,           \* how writes to the cache directory end: "ok", "denied", "partial"
    inserted        \* key -> the size of the value a direct caller of the store
                    \* last handed to set() for it (history)

vars == <<now, memory_cache, files, index, disk, req, bulk, op, inserted, calls, thr, res, calc>>

----------------------------------------------------------------------------
(* Bounds of the model *)

\* the clock stops at MaxTime hours
MaxTime == 36
\* the clock advances in steps of TickHours hours
TickHours == 12
\* the byte budget max_size_bytes the store is constructed with, in size units
MaxSizeBytes == 4
\* longest input list handed to bulk_rate_resources
MaxBulkLen == 3
\* the callers call rate_resource directly at most MaxCalls times
MaxCalls == 2
\* the callers call the operations of the store directly at most MaxStoreCalls
\* times
MaxStoreCalls == 3
\* the same, in the runs in which the store is restarted
MaxRestartCalls == 2
\* the same, in the runs in which two threads call the store concurrently
MaxThreadCalls == 2
\* the calls made on one Resource in a run
MaxResourceCalls == 4

----------------------------------------------------------------------------
(* Python values *)

Scale == 100

Str(s) == [str |-> s]
Num(n) == [num |-> n]
List(s) == [list |-> s]
Dict(d) == [dict |-> d]
Obj(o) == [obj |-> o]

IsStr(v) == DOMAIN v = {"str"}
IsNum(v) == DOMAIN v = {"num"}
IsList(v) == DOMAIN v = {"list"}
IsDict(v) == DOMAIN v = {"dict"}

\* None, for the optional last_rated / final_score / resource_id
NoTime == 0 - 1
NoScore == 0 - 1
NoId == <<"", "", "", NoTime, 0>>

Min(a, b) == IF a <= b THEN a ELSE b
Max(a, b) == IF a >= b THEN a ELSE b

\* a / b and a * b on fixed-point numbers
FDiv(a, b) == (a * Scale) \div b
FMul(a, b) == (a * b) \div Scale

\* dict.get(key, default)
DictGet(d, key, default) == IF key \in DOMAIN d THEN d[key] ELSE default

\* str.lower() on the strings of the model
Lower(s) ==
    CASE s = "https://Example.com/A" -> "https://example.com/a"
      [] s = "Testing " -> "testing "
      [] s = "EN" -> "en"
      [] s = "Rating" -> "rating"
      [] OTHER -> s

\* str.strip() on the strings of the model
Strip(s) ==
    CASE s = "testing " -> "testing"
      [] s = "Testing " -> "Testing"
      [] s = " " -> ""
      [] OTHER -> s

\* json.dumps(value) succeeds: no object json cannot serialise is inside
\* (the lists of the model hold strings)
RECURSIVE JsonSerializable(_)
JsonSerializable(v) ==
    CASE DOMAIN v = {"obj"} -> FALSE
      [] DOMAIN v = {"dict"} -> \A f \in DOMAIN v.dict : JsonSerializable(v.dict[f])
      [] OTHER -> TRUE

----------------------------------------------------------------------------
(* json *)

\* the fields of a Resource snapshot that the program itself fills in
\* (identifier, numbers, timestamps): json always serialises them
ProgramFields == {"resource_id", "scores", "final_score", "last_rated", "rating_metadata"}

\* json.dumps(data) does not raise
JsonDumpsOk(data) ==
    IF IsDict(data)
    THEN \A f \in (DOMAIN data.dict) \ ProgramFields : JsonSerializable(data.dict[f])
    ELSE JsonSerializable(data)

\* len(s) of the long strings of the model, in size units
StrBytes(s) ==
    CASE s = "x" -> 1
      [] s = "xx" -> 2
      [] s = "xxx" -> 3
      [] s = "Text A" -> 2
      [] s = "Text B" -> 1
      [] OTHER -> 0

\* len(json.dumps(data)), in size units: the long strings dominate
JsonLen(data) ==
    CASE IsStr(data) -> StrBytes(data.str)
      [] IsDict(data) ->
            (IF "data" \in DOMAIN data.dict /\ IsStr(data.dict.data)
             THEN StrBytes(data.dict.data.str) ELSE 0)
          + (IF "content" \in DOMAIN data.dict /\ IsStr(data.dict.content)
             THEN StrBytes(data.dict.content.str) ELSE 0)
      [] OTHER -> 0

\* the content of a file: json text of a value, or text json cannot parse
JsonText(data) == [parse |-> "ok", data |-> data]
Unparseable == [parse |-> "error"]

\* json.load(f) raises
JsonLoadRaises(content) == content.parse # "ok"

\* what json.load gives back for what json.dump wrote: tuples come back as lists
JsonRoundTrip(data) ==
    IF IsDict(data) /\ "rating_metadata" \in DOMAIN data.dict
       /\ "content_metrics" \in DOMAIN data.dict.rating_metadata
    THEN Dict([data.dict EXCEPT
                 !.rating_metadata.content_metrics.keywords.elems = "list"])
    ELSE data

JsonLoad(content) == JsonRoundTrip(content.data)

----------------------------------------------------------------------------
(* models/resource.py *)

Criteria == {"relevance", "authority", "engagement", "clarity", "impact"}

EmptyDict == [k \in {} |-> 0]

\* Resource._generate_id: sha256 of title, url and time(), taken as injective.
\* clock is the reading of time(): the hour and, within it, the number of the
\* reading, because two readings of time() never agree
GenerateId(title, url, clock) == <<"", title.str, url.str, clock[1], clock[2]>>

\* an identifier the caller supplies
SuppliedId(s) == <<s, "", "", NoTime, 0>>

\* the element of a set of one element; with { e(x) : x \in {v} } it names a
\* value v that e uses more than once, as a local variable of the code does
Only(S) == CHOOSE v \in S : TRUE

\* Resource.__init__
NewResource(title, content, author, url, publication_date, metadata, resource_id, clock) ==
    [ title |-> title, content |-> content, author |-> author, url |-> url,
      publication_date |-> publication_date, metadata |-> metadata,
      resource_id |-> IF resource_id # NoId THEN resource_id
                      ELSE GenerateId(title, url, clock),
      scores |-> EmptyDict, final_score |-> NoScore, last_rated |-> NoTime,
      rating_metadata |-> EmptyDict ]

\* datetime.isoformat() and datetime.fromisoformat() of a timestamp, None kept
IsoFormat(t) == [iso |-> t]
FromIsoFormat(s) == s.iso
PyNone == [iso |-> NoTime]

\* Resource.to_dict
ToDict(r) ==
    Dict([ resource_id |-> r.resource_id, title |-> r.title, content |-> r.content,
           author |-> r.author, url |-> r.url,
           publication_date |-> r.publication_date, metadata |-> r.metadata,
           scores |-> r.scores, final_score |-> r.final_score,
           last_rated |-> IF r.last_rated # NoTime THEN IsoFormat(r.last_rated)
                          ELSE PyNone,
           rating_metadata |-> r.rating_metadata ])

\* the keys Resource.from_dict reads with data[...]
RequiredKeys == {"title", "content", "author", "url", "publication_date", "metadata"}

\* Resource.from_dict raises (KeyError for a missing key, TypeError for data
\* that is no dict)
FromDictRaises(data) ==
    ~IsDict(data) \/ ~(RequiredKeys \subseteq DOMAIN data.dict)

\* Resource.from_dict, constructed when time() reads clock
FromDict(data, clock) ==
    LET d == data.dict
        base == NewResource(d.title, d.content, d.author, d.url, d.publication_date,
                            d.metadata, DictGet(d, "resource_id", NoId), clock)
    IN [ base EXCEPT
           !.scores = DictGet(d, "scores", base.scores),
           !.final_score = DictGet(d, "final_score", base.final_score),
           !.last_rated = IF "last_rated" \in DOMAIN d /\ d.last_rated # PyNone
                          THEN FromIsoFormat(d.last_rated) ELSE base.last_rated,
           !.rating_metadata = DictGet(d, "rating_metadata", base.rating_metadata) ]

\* scores[criterion] = value on a Python dict
DictSet(d, key, value) ==
    [k \in DOMAIN d \cup {key} |-> IF k = key THEN value ELSE d[k]]

\* dict.update(other)
DictUpdate(d, other) ==
    [k \in DOMAIN d \cup DOMAIN other |-> IF k \in DOMAIN other THEN other[k] ELSE d[k]]

\* Resource.update_score at time t
UpdateScore(r, criterion, score, t) ==
    [ r EXCEPT !.scores = DictSet(r.scores, criterion, Max(0, Min(10 * Scale, score))),
               !.last_rated = t ]

\* Resource.set_final_score at time t
SetFinalScore(r, score, metadata, t) ==
    [ r EXCEPT !.final_score = Max(0, Min(10 * Scale, score)),
               !.rating_metadata = IF metadata # EmptyDict
                                   THEN DictUpdate(r.rating_metadata, metadata)
                                   ELSE r.rating_metadata,
               !.last_rated = t ]

\* the default max_age_hours of Resource.is_stale
MaxAgeHours == 24

\* is_stale that lets a Resource without last_rated pass as fresh
StaleAfterIfRated(r, t, max_age_hours) ==
    r.last_rated # NoTime /\ (t - r.last_rated) > max_age_hours

\* Resource.is_stale at time t
StaleAfter(r, t, max_age_hours) ==
    IF r.last_rated = NoTime THEN TRUE
    ELSE (t - r.last_rated) > max_age_hours

IsStale(r, t) == StaleAfter(r, t, MaxAgeHours)

----------------------------------------------------------------------------
(* core/data_processor.py *)

\* DataProcessor.url_pattern matches the string
UrlPatternMatches(s) == s \in {"https://example.com/a", "https://Example.com/A"}

\* datetime.fromisoformat(s.replace('Z', '+00:00')) does not raise
DateParses(s) == s \in {"2024-01-01T00:00:00Z", "2024-01-01T00:00:00+00:00"}

\* DataProcessor._validate_metadata: the list of errors, as a set
ValidateMetadata(metadata) ==
    LET md == IF IsDict(metadata) THEN metadata.dict ELSE EmptyDict
    IN    {<<"missing", f>> : f \in {"keywords", "category", "language"} \ DOMAIN md}
     \cup (IF "keywords" \in DOMAIN md /\ ~IsList(md.keywords)
           THEN {<<"type", "keywords">>} ELSE {})
     \cup {<<"type", f>> : f \in {g \in {"category", "language"} \cap DOMAIN md :
                                      ~IsStr(md[g])}}

\* DataProcessor.validate_resource_data raises instead of returning: the
\* regular expression and str.replace are applied to a value that is no string
ValidateRaises(d) == ~IsStr(d.url) \/ ~IsStr(d.publication_date)

\* DataProcessor.validate_resource_data on the dict of a Resource (to_dict has
\* every required field, so none is missing): the errors, as a set
ValidateResourceData(d) ==
         {<<"invalid_types", f>> :
             f \in {g \in {"title", "content", "author", "publication_date", "url"} :
                      ~IsStr(d[g])}}
    \cup (IF ~IsDict(d.metadata) THEN {<<"invalid_types", "metadata">>} ELSE {})
    \cup (IF ~UrlPatternMatches(d.url.str) THEN {<<"invalid_values", "url">>} ELSE {})
    \cup (IF ~DateParses(d.publication_date.str)
          THEN {<<"invalid_values", "date">>} ELSE {})
    \cup (IF ValidateMetadata(d.metadata) # {} THEN {<<"metadata", "errors">>} ELSE {})

\* DataProcessor.clean_text_content on the texts of the model
CleanTextContent(s) ==
    CASE s = " Text  A " -> "Text A"
      [] OTHER -> s

\* DataProcessor._normalize_date
NormalizeDate(s) ==
    IF DateParses(s) THEN "2024-01-01T00:00:00+00:00" ELSE s

\* a set of strings as a list (list(set(...)))
RECURSIVE SetToList(_)
SetToList(S) ==
    IF S = {} THEN <<>>
    ELSE LET x == CHOOSE y \in S : TRUE IN <<x>> \o SetToList(S \ {x})

\* DataProcessor._normalize_metadata
NormalizeMetadata(md) ==
    LET normalized ==
            (IF "keywords" \in DOMAIN md
             THEN [k \in {"keywords"} |->
                     List(SetToList({Strip(Lower(md.keywords.list[i])) :
                                       i \in {j \in 1..Len(md.keywords.list) :
                                                Strip(md.keywords.list[j]) # ""}}))]
             ELSE EmptyDict)
         @@ (IF "category" \in DOMAIN md
             THEN [k \in {"category"} |-> Str(Strip(Lower(md.category.str)))]
             ELSE EmptyDict)
         @@ (IF "language" \in DOMAIN md
             THEN [k \in {"language"} |-> Str(Strip(Lower(md.language.str)))]
             ELSE EmptyDict)
    IN DictUpdate(md, normalized)

\* DataProcessor.prepare_resource_data on a validated dict
PrepareResourceData(data) ==
    Dict([ data.dict EXCEPT
             !.content = Str(CleanTextContent(data.dict.content.str)),
             !.metadata = Dict(NormalizeMetadata(data.dict.metadata.dict)),
             !.publication_date = Str(NormalizeDate(data.dict.publication_date.str)),
             !.url = Str(Lower(data.dict.url.str)) ])

----------------------------------------------------------------------------
(* core/metrics_collector.py *)

\* MetricsCollector.analyze_text_content: the tokenizer's counts for the texts
\* of the model (word_count, sentence_count and the number of top keywords are
\* counts; readability_score is fixed-point).  avg_sentence_length and
\* keyword_density, which nothing reads, are left out.
AnalyzeTextContent(content) ==
    CASE content = "Text A" ->
            [ word_count |-> 40, sentence_count |-> 3, readability_score |-> 60 * Scale,
              keywords |-> [len |-> 10, elems |-> "tuple"] ]
      [] content = "Text B" ->
            [ word_count |-> 8, sentence_count |-> 1, readability_score |-> 95 * Scale,
              keywords |-> [len |-> 5, elems |-> "tuple"] ]
      [] OTHER ->
            [ word_count |-> 0, sentence_count |-> 0, readability_score |-> 0,
              keywords |-> [len |-> 0, elems |-> "list"] ]

\* the arithmetic of the analyze_* functions raises TypeError: a signal is no number
SignalsRaise(m) == \E f \in DOMAIN m : ~IsNum(m[f])

\* MetricsCollector.analyze_engagement_metrics
AnalyzeEngagementMetrics(m) ==
    LET total_views == m.view_count.num
    IN [ interaction_rate |->
            Min(10 * Scale, (m.interactions.num * 10 * Scale) \div Max(1 * Scale, total_views)),
         avg_session_time |-> Min(10 * Scale, m.interaction_time.num \div 5),
         social_impact |->
            Min(10 * Scale, (m.social_shares.num * 20 * Scale) \div Max(1 * Scale, total_views)) ]

\* MetricsCollector.analyze_authority_metrics
AnalyzeAuthorityMetrics(m) ==
    LET citation_score == Min(10 * Scale, m.citations.num \div 10)
        credentials_score == Min(10 * Scale, m.author_credentials.num)
        domain_score == Min(10 * Scale, m.domain_authority.num)
    IN [ citation_impact |-> citation_score,
         author_expertise |-> credentials_score,
         domain_authority |-> domain_score,
         overall_authority |-> (citation_score + credentials_score + domain_score) \div 3 ]

\* MetricsCollector.calculate_impact_metrics
CalculateImpactMetrics(m) ==
    LET outcomes_score == Min(10 * Scale, m.positive_outcomes.num)
        conversion_score == Min(10 * Scale, m.conversion_rate.num * 10)
        satisfaction_score == Min(10 * Scale, m.user_satisfaction.num)
    IN [ outcome_effectiveness |-> outcomes_score,
         conversion_impact |-> conversion_score,
         user_satisfaction |-> satisfaction_score,
         overall_impact |-> (outcomes_score + conversion_score + satisfaction_score) \div 3 ]

----------------------------------------------------------------------------
(* core/rating_calculator.py *)

\* RatingCalculator.WEIGHTS, in hundredths
WEIGHTS == [ relevance |-> 25, authority |-> 20, engagement |-> 20,
             clarity |-> 15, impact |-> 20 ]

\* RatingCalculator.calculate_relevance (both arguments are counts)
CalculateRelevance(matched_keywords, total_keywords) ==
    IF total_keywords = 0 THEN 0
    ELSE Min(10 * Scale, (matched_keywords * 10 * Scale) \div total_keywords)

\* RatingCalculator.calculate_authority
CalculateAuthority(citations, credentials_score, max_authority) ==
    IF max_authority <= 0 THEN 0
    ELSE Min(10 * Scale, ((citations + credentials_score) * 10 * Scale) \div max_authority)

\* RatingCalculator.calculate_engagement
CalculateEngagement(interactions, session_time, social_shares, max_engagement) ==
    IF max_engagement <= 0 THEN 0
    ELSE LET total_engagement == interactions + (session_time * 2) + social_shares
         IN Min(10 * Scale, (total_engagement * 10 * Scale) \div max_engagement)

\* RatingCalculator.calculate_clarity (usability_features is a count)
CalculateClarity(readability_score, usability_features, has_cta, max_clarity) ==
    IF max_clarity <= 0 THEN 0
    ELSE LET normalized_readability_x5 == (readability_score * 5) \div 100
             cta_score == IF has_cta THEN 1 * Scale ELSE 0
             total_clarity == normalized_readability_x5
                              + (usability_features * Scale) \div 2 + cta_score
         IN Min(10 * Scale, (total_clarity * 10 * Scale) \div max_clarity)

\* RatingCalculator.calculate_impact
CalculateImpact(positive_outcomes, tangible_metrics, max_impact) ==
    IF max_impact <= 0 THEN 0
    ELSE LET total_impact == positive_outcomes + tangible_metrics
         IN Min(10 * Scale, (total_impact * 10 * Scale) \div max_impact)

\* modifiers in which the penalty is applied only when the bonus is not (elif)
ApplyModifiersExclusive(scores) ==
    IF \E c \in DOMAIN scores : scores[c] >= (95 * Scale) \div 10 THEN Scale \div 2
    ELSE IF \E c \in DOMAIN scores : scores[c] <= 3 * Scale THEN 0 - (Scale \div 2)
    ELSE 0

\* RatingCalculator.apply_modifiers
ApplyModifiers(scores) ==
      (IF \E c \in DOMAIN scores : scores[c] >= (95 * Scale) \div 10
       THEN Scale \div 2 ELSE 0)
    - (IF \E c \in DOMAIN scores : scores[c] <= 3 * Scale
       THEN Scale \div 2 ELSE 0)

\* a validation that takes a score of 0.0 for a missing criterion
\* (scores.get(criterion) tested for truth)
FinalScoreRaisesOnZero(scores) ==
    \E c \in DOMAIN WEIGHTS : c \notin DOMAIN scores \/ scores[c] = 0

\* RatingCalculator.calculate_final_score raises ValueError
FinalScoreRaises(scores) == ~(DOMAIN WEIGHTS \subseteq DOMAIN scores)

\* sum of scores[c] * WEIGHTS[c] over the criteria in S
RECURSIVE WeightedSum(_, _)
WeightedSum(scores, S) ==
    IF S = {} THEN 0
    ELSE LET c == CHOOSE x \in S : TRUE
         IN scores[c] * WEIGHTS[c] + WeightedSum(scores, S \ {c})

\* RatingCalculator.calculate_final_score
CalculateFinalScore(scores, review_count) ==
    LET weighted_score == WeightedSum(scores, DOMAIN WEIGHTS) \div 100
        modifier == ApplyModifiers(scores)
                    + (IF review_count >= 500 * Scale THEN Scale \div 5 ELSE 0)
    IN Min(10 * Scale, Max(1 * Scale, weighted_score + modifier))

----------------------------------------------------------------------------
(* utils/cache_manager.py: the store as a value                             *)
(* memory_cache is a Python dict, which keeps insertion order: a sequence   *)
(* of entries [key, data, expiry].                                          *)

\* None, as get() returns it
NoneValue == [none |-> "None"]

\* key in memory_cache
HasKey(mc, k) == \E i \in 1..Len(mc) : mc[i].key = k

\* memory_cache[key]
Lookup(mc, k) == mc[CHOOSE i \in 1..Len(mc) : mc[i].key = k]

\* memory_cache.keys()
KeysOf(mc) == {mc[i].key : i \in 1..Len(mc)}

\* an assignment that leaves a key already there as it is
AssignKeepsFirst(mc, k, data, expiry) ==
    IF HasKey(mc, k) THEN mc
    ELSE Append(mc, [key |-> k, data |-> data, expiry |-> expiry])

\* memory_cache[key] = (data, expiry): a key already there keeps its place
Assign(mc, k, data, expiry) ==
    IF HasKey(mc, k)
    THEN [i \in 1..Len(mc) |-> IF mc[i].key = k
                               THEN [key |-> k, data |-> data, expiry |-> expiry]
                               ELSE mc[i]]
    ELSE Append(mc, [key |-> k, data |-> data, expiry |-> expiry])

\* del memory_cache[key]
RECURSIVE Del(_, _)
Del(mc, k) ==
    IF mc = <<>> THEN <<>>
    ELSE IF Head(mc).key = k THEN Tail(mc)
    ELSE <<Head(mc)>> \o Del(Tail(mc), k)

\* os.remove(<key>.json); a missing file raises OSError, which every caller drops
RemoveFile(fs, k) == [f \in (DOMAIN fs) \ {k} |-> fs[f]]

\* CacheManager.get_cache_size raises: json.dumps of some entry raises
SizeRaises(mc) == \E i \in 1..Len(mc) : ~JsonDumpsOk(mc[i].data)

\* CacheManager.get_cache_size, and the same sum in _cleanup_old_cache
RECURSIVE GetCacheSize(_)
GetCacheSize(mc) ==
    IF mc = <<>> THEN 0 ELSE JsonLen(Head(mc).data) + GetCacheSize(Tail(mc))

\* insert entry e into the list s sorted by expiry, after the entries of equal
\* expiry (sorted() is stable)
RECURSIVE InsertByExpiry(_, _)
InsertByExpiry(s, e) ==
    IF s = <<>> THEN <<e>>
    ELSE IF Head(s).expiry <= e.expiry THEN <<Head(s)>> \o InsertByExpiry(Tail(s), e)
    ELSE <<e>> \o s

\* sorted(memory_cache.items(), key=expiry)
RECURSIVE SortedCache(_)
SortedCache(mc) ==
    IF mc = <<>> THEN <<>>
    ELSE InsertByExpiry(SortedCache(SubSeq(mc, 1, Len(mc) - 1)), mc[Len(mc)])

\* the while loop of _cleanup_old_cache: the keys it removes, in order
RECURSIVE EvictLoop(_, _, _)
EvictLoop(sorted_cache, current_size, max_size_bytes) ==
    IF current_size > max_size_bytes /\ sorted_cache # <<>>
    THEN <<Head(sorted_cache).key>>
         \o EvictLoop(Tail(sorted_cache),
                      current_size - JsonLen(Head(sorted_cache).data), max_size_bytes)
    ELSE <<>>

\* a cleanup that never evicts
CleanupNever(mc, max_size_bytes) == <<>>

\* a cleanup that evicts in the order of insertion
CleanupInsertionOrder(mc, max_size_bytes) ==
    IF GetCacheSize(mc) > max_size_bytes
    THEN EvictLoop(mc, GetCacheSize(mc), max_size_bytes)
    ELSE <<>>

\* CacheManager._cleanup_old_cache: the keys it evicts, in order
CleanupOldCache(mc, max_size_bytes) ==
    IF GetCacheSize(mc) > max_size_bytes
    THEN EvictLoop(SortedCache(mc), GetCacheSize(mc), max_size_bytes)
    ELSE <<>>

\* the entries of mc whose key is not in the set gone
RECURSIVE Without(_, _)
Without(mc, gone) ==
    IF mc = <<>> THEN <<>>
    ELSE IF Head(mc).key \in gone THEN Without(Tail(mc), gone)
    ELSE <<Head(mc)>> \o Without(Tail(mc), gone)

\* the elements of a sequence
Range(s) == {s[i] : i \in 1..Len(s)}

\* how a write to a file of the cache directory ends: written; open() refused
\* (permission denied), the file is as before; cut short (disk full), what is
\* left cannot be parsed
WriteOutcomes == {"ok", "denied", "partial"}

\* CacheManager._save_cache_item: the data files afterwards.  open(..., 'w')
\* empties the file before json.dump runs, so a value json cannot serialise
\* leaves a file that cannot be parsed.
SaveCacheItem(fs, k, data, outcome) ==
    IF outcome = "denied" THEN fs
    ELSE [f \in DOMAIN fs \cup {k} |->
            IF f # k THEN fs[f]
            ELSE IF outcome = "ok" /\ JsonDumpsOk(data) THEN JsonText(data)
            ELSE Unparseable]

NoIndex == [state |-> "none", entries |-> <<>>]
CorruptIndex == [state |-> "corrupt", entries |-> <<>>]

\* the index dict _save_cache_index builds
IndexOf(mc) ==
    [state |-> "ok",
     entries |-> [i \in 1..Len(mc) |->
                    [key |-> mc[i].key, expiry |-> IsoFormat(mc[i].expiry),
                     size |-> JsonLen(mc[i].data)]]]

\* CacheManager._save_cache_index: the index file afterwards.  The index dict
\* is built (json.dumps of every entry) before the file is opened.
SaveCacheIndex(idx, mc, outcome) ==
    IF SizeRaises(mc) \/ outcome = "denied" THEN idx
    ELSE IF outcome = "ok" THEN IndexOf(mc)
    ELSE CorruptIndex

\* a get that still returns an entry at the time of its expiry
StoreGetAtExpiry(mc, fs, k, t) ==
    IF HasKey(mc, k)
    THEN IF Lookup(mc, k).expiry >= t
         THEN [ret |-> Lookup(mc, k).data, evicted |-> <<>>,
               memory_cache |-> mc, files |-> fs]
         ELSE [ret |-> NoneValue, evicted |-> <<k>>,
               memory_cache |-> Del(mc, k), files |-> RemoveFile(fs, k)]
    ELSE [ret |-> NoneValue, evicted |-> <<>>, memory_cache |-> mc, files |-> fs]

\* a get that takes the entry it returns out of the store
StoreGetPops(mc, fs, k, t) ==
    IF HasKey(mc, k)
    THEN [ret |-> IF Lookup(mc, k).expiry > t THEN Lookup(mc, k).data ELSE NoneValue,
          evicted |-> <<k>>, memory_cache |-> Del(mc, k), files |-> RemoveFile(fs, k)]
    ELSE [ret |-> NoneValue, evicted |-> <<>>, memory_cache |-> mc, files |-> fs]

\* CacheManager.get at time t: what it returns, the keys it removes and the
\* store afterwards
StoreGet(mc, fs, k, t) ==
    IF HasKey(mc, k)
    THEN IF Lookup(mc, k).expiry > t
         THEN [ret |-> Lookup(mc, k).data, evicted |-> <<>>,
               memory_cache |-> mc, files |-> fs]
         ELSE [ret |-> NoneValue, evicted |-> <<k>>,
               memory_cache |-> Del(mc, k), files |-> RemoveFile(fs, k)]
    ELSE [ret |-> NoneValue, evicted |-> <<>>, memory_cache |-> mc, files |-> fs]

\* the default expire_hours of CacheManager.set
ExpireHours == 24

\* a set whose cleanup is guarded like the two saves: an error of json.dumps
\* is dropped and nothing is evicted
StoreSetGuarded(mc, fs, idx, k, value, expire_hours, t, itemOutcome, indexOutcome) ==
    LET mc1 == Assign(mc, k, value, t + expire_hours)
        fs1 == SaveCacheItem(fs, k, value, itemOutcome)
        idx1 == SaveCacheIndex(idx, mc1, indexOutcome)
        evicted == IF SizeRaises(mc1) THEN <<>> ELSE CleanupOldCache(mc1, MaxSizeBytes)
    IN [raised |-> FALSE, evicted |-> evicted,
        memory_cache |-> Without(mc1, Range(evicted)),
        files |-> [f \in (DOMAIN fs1) \ Range(evicted) |-> fs1[f]],
        index |-> idx1]

\* CacheManager.set at time t: whether it raises, what it evicts and the store
\* afterwards
StoreSet(mc, fs, idx, k, value, expire_hours, t, itemOutcome, indexOutcome) ==
    Only({ LET fs1 == SaveCacheItem(fs, k, value, itemOutcome)
               idx1 == SaveCacheIndex(idx, mc1, indexOutcome)
           IN IF SizeRaises(mc1)
              THEN [raised |-> TRUE, evicted |-> <<>>,
                    memory_cache |-> mc1, files |-> fs1, index |-> idx1]
              ELSE Only({ [raised |-> FALSE, evicted |-> evicted,
                           memory_cache |-> Without(mc1, Range(evicted)),
                           files |-> [f \in (DOMAIN fs1) \ Range(evicted) |-> fs1[f]],
                           index |-> idx1] :
                          evicted \in {CleanupOldCache(mc1, MaxSizeBytes)} }) :
           mc1 \in {Assign(mc, k, value, t + expire_hours)} })

\* a delete that leaves the data file in the directory
StoreDeleteKeepsFile(mc, fs, idx, k, indexOutcome) ==
    IF HasKey(mc, k)
    THEN [memory_cache |-> Del(mc, k), files |-> fs,
          index |-> SaveCacheIndex(idx, Del(mc, k), indexOutcome)]
    ELSE [memory_cache |-> mc, files |-> fs, index |-> idx]

\* CacheManager.delete: the store afterwards
StoreDelete(mc, fs, idx, k, indexOutcome) ==
    IF HasKey(mc, k)
    THEN [memory_cache |-> Del(mc, k), files |-> RemoveFile(fs, k),
          index |-> SaveCacheIndex(idx, Del(mc, k), indexOutcome)]
    ELSE [memory_cache |-> mc, files |-> fs, index |-> idx]

\* a clear that empties the memory and leaves the directory as it is
StoreClearMemoryOnly == [memory_cache |-> <<>>, files |-> files, index |-> index]

\* CacheManager.clear_cache: every file of the directory goes, the index too
StoreClear == [memory_cache |-> <<>>, files |-> EmptyDict, index |-> NoIndex]

\* the for loop of _load_cache over the index entries from position i on
RECURSIVE LoadLoop(_, _, _, _, _)
LoadLoop(entries, i, mc, fs, t) ==
    IF i > Len(entries) THEN [raised |-> FALSE, memory_cache |-> mc, files |-> fs]
    ELSE LET e == entries[i]
         IN IF e.key \notin DOMAIN fs THEN LoadLoop(entries, i + 1, mc, fs, t)
            ELSE IF JsonLoadRaises(fs[e.key])
                 THEN [raised |-> TRUE, memory_cache |-> mc, files |-> fs]
            ELSE IF FromIsoFormat(e.expiry) > t
                 THEN LoadLoop(entries, i + 1,
                               Assign(mc, e.key, JsonLoad(fs[e.key]), FromIsoFormat(e.expiry)),
                               fs, t)
            ELSE LoadLoop(entries, i + 1, mc, RemoveFile(fs, e.key), t)

\* a load that, when the index cannot be parsed, takes every data file it can
\* parse into memory with the default lifetime
LoadCacheFromFiles(fs, idx, t) ==
    IF idx.state = "corrupt"
    THEN LET good == SetToList({k \in DOMAIN fs : ~JsonLoadRaises(fs[k])})
         IN [memory_cache |-> [i \in 1..Len(good) |->
                                 [key |-> good[i], data |-> JsonLoad(fs[good[i]]),
                                  expiry |-> t + 24]],
             files |-> fs, index |-> NoIndex]
    ELSE IF idx.state = "none" THEN [memory_cache |-> <<>>, files |-> fs, index |-> idx]
    ELSE [memory_cache |-> <<>>, files |-> EmptyDict, index |-> NoIndex]

\* CacheManager.__init__ with _load_cache at time t on a directory holding the
\* data files fs and the index file idx: the store it starts with
LoadCache(fs, idx, t) ==
    IF idx.state = "none" THEN [memory_cache |-> <<>>, files |-> fs, index |-> idx]
    ELSE IF idx.state = "corrupt" THEN StoreClear
    ELSE LET r == LoadLoop(idx.entries, 1, <<>>, fs, t)
         IN IF r.raised THEN StoreClear
            ELSE [memory_cache |-> r.memory_cache, files |-> r.files, index |-> idx]

----------------------------------------------------------------------------
(* core/rating_service.py: the steps of rate_resource as functions *)

\* isinstance(resource_data, Resource)
IsResource(v) == DOMAIN v = {"resource"}

\* bool(value), as in "if cached_result"
Truthy(v) ==
    /\ v # NoneValue
    /\ v # Dict(EmptyDict)
    /\ v # Str("")
    /\ v # List(<<>>)
    /\ v # Num(0)

\* the dict RatingService._collect_metrics hands to analyze_engagement_metrics
EngagementInput(md) ==
    [ view_count |-> DictGet(md, "view_count", Num(0)),
      interaction_time |-> DictGet(md, "avg_interaction_time", Num(0)),
      social_shares |-> DictGet(md, "social_shares", Num(0)),
      interactions |-> DictGet(md, "total_interactions", Num(0)) ]

\* the dict it hands to analyze_authority_metrics
AuthorityInput(md) ==
    [ citations |-> DictGet(md, "citations", Num(0)),
      author_credentials |-> DictGet(md, "author_credentials_score", Num(0)),
      domain_authority |-> DictGet(md, "domain_authority", Num(0)) ]

\* the dict it hands to calculate_impact_metrics
ImpactInput(md) ==
    [ positive_outcomes |-> DictGet(md, "positive_outcomes", Num(0)),
      conversion_rate |-> DictGet(md, "conversion_rate", Num(0)),
      user_satisfaction |-> DictGet(md, "user_satisfaction", Num(0)) ]

\* RatingService._collect_metrics raises
CollectMetricsRaises(r) ==
    \/ SignalsRaise(EngagementInput(r.metadata.dict))
    \/ SignalsRaise(AuthorityInput(r.metadata.dict))
    \/ SignalsRaise(ImpactInput(r.metadata.dict))

\* RatingService._collect_metrics: the resource afterwards
CollectMetrics(r) ==
    [ r EXCEPT !.rating_metadata =
        DictUpdate(r.rating_metadata,
          [ content_metrics |-> AnalyzeTextContent(r.content.str),
            engagement_metrics |-> AnalyzeEngagementMetrics(EngagementInput(r.metadata.dict)),
            authority_metrics |-> AnalyzeAuthorityMetrics(AuthorityInput(r.metadata.dict)),
            impact_metrics |-> CalculateImpactMetrics(ImpactInput(r.metadata.dict)) ]) ]

\* the local dict scores of RatingService._calculate_rating
RatingScores(metrics) ==
    [ relevance |-> CalculateRelevance(metrics.content_metrics.keywords.len,
                                       metrics.content_metrics.word_count),
      authority |-> CalculateAuthority(metrics.authority_metrics.citation_impact,
                                       metrics.authority_metrics.author_expertise,
                                       10 * Scale),
      engagement |-> CalculateEngagement(metrics.engagement_metrics.interaction_rate,
                                         metrics.engagement_metrics.avg_session_time,
                                         metrics.engagement_metrics.social_impact,
                                         10 * Scale),
      clarity |-> CalculateClarity(metrics.content_metrics.readability_score,
                                   metrics.content_metrics.keywords.len, TRUE, 10 * Scale),
      impact |-> CalculateImpact(metrics.impact_metrics.outcome_effectiveness,
                                 metrics.impact_metrics.conversion_impact, 10 * Scale) ]

\* RatingService._calculate_rating raises: review_count >= 500 on no number
CalculateRatingRaises(r) == ~IsNum(DictGet(r.metadata.dict, "review_count", Num(0)))

\* resource.update_score for every criterion of S, at time t
RECURSIVE UpdateScores(_, _, _, _)
UpdateScores(r, scores, S, t) ==
    IF S = {} THEN r
    ELSE Only({ UpdateScores(updated, scores, rest, t) :
                  <<updated, rest>> \in
                     { <<UpdateScore(r, c, scores[c], t), S \ {c}>> :
                         c \in {CHOOSE x \in S : TRUE} } })

\* a calculation that takes a hundredth off the final score for every hour on
\* the clock
CalculateRatingAging(r, t) ==
    LET scores == RatingScores(r.rating_metadata)
        review_count == DictGet(r.metadata.dict, "review_count", Num(0)).num
        final_score == CalculateFinalScore(scores, review_count) - t
    IN SetFinalScore(UpdateScores(r, scores, DOMAIN scores, t), final_score,
                     [ calculation_timestamp |-> IsoFormat(t),
                       review_count |-> review_count,
                       score_breakdown |-> scores ], t)

\* a calculation that stores the five scores and leaves out set_final_score
CalculateRatingScoresOnly(r, t) ==
    LET scores == RatingScores(r.rating_metadata)
    IN UpdateScores(r, scores, DOMAIN scores, t)

\* RatingService._calculate_rating at time t: the resource afterwards
CalculateRating(r, t) ==
    Only({ LET review_count == DictGet(r.metadata.dict, "review_count", Num(0)).num
               final_score == CalculateFinalScore(scores, review_count)
           IN SetFinalScore(UpdateScores(r, scores, DOMAIN scores, t), final_score,
                            [ calculation_timestamp |-> IsoFormat(t),
                              review_count |-> review_count,
                              score_breakdown |-> scores ], t) :
           scores \in {RatingScores(r.rating_metadata)} })

----------------------------------------------------------------------------
(* The inputs of the model *)

\* the metadata of the sample resource of tests/conftest.py, with keywords,
\* category and language that normalisation changes
SampleMetadata ==
    [ keywords |-> List(<<"Rating", "rating", " ">>), category |-> Str("Testing "),
      language |-> Str("EN"),
      view_count |-> Num(1000 * Scale), avg_interaction_time |-> Num(300 * Scale),
      social_shares |-> Num(150 * Scale), total_interactions |-> Num(500 * Scale),
      citations |-> Num(25 * Scale), author_credentials_score |-> Num(8 * Scale),
      domain_authority |-> Num(70 * Scale), positive_outcomes |-> Num(7 * Scale),
      conversion_rate |-> Num(12), user_satisfaction |-> Num(850),
      review_count |-> Num(250 * Scale) ]

\* metadata with weak signals and many reviews
WeakMetadata ==
    [ keywords |-> List(<<"rating">>), category |-> Str("testing"), language |-> Str("en"),
      view_count |-> Num(2000 * Scale), total_interactions |-> Num(100 * Scale),
      citations |-> Num(10 * Scale), author_credentials_score |-> Num(1 * Scale),
      positive_outcomes |-> Num(0 - 2 * Scale), review_count |-> Num(600 * Scale) ]

RawData(title, content, url, publication_date, metadata) ==
    [ title |-> Str(title), content |-> Str(content), author |-> Str("Author"),
      url |-> Str(url), publication_date |-> Str(publication_date),
      metadata |-> Dict(metadata) ]

WithId(d, id) == DictSet(d, "resource_id", id)

\* raw data without an identifier
RawNoId ==
    Dict(RawData("T1", " Text  A ", "https://Example.com/A", "2024-01-01T00:00:00Z",
                 SampleMetadata))

\* a Resource the caller constructed, without an identifier, when the clock was 0
ObjT1 ==
    [resource |-> NewResource(Str("T1"), Str("Text A"), Str("Author"),
                              Str("https://example.com/a"), Str("2024-01-01T00:00:00Z"),
                              Dict(SampleMetadata), NoId, <<0, 0>>)]

\* the invalid resource of test_error_handling, as raw data
RawInvalid ==
    Dict(RawData("Invalid Resource", "", "not-a-valid-url", "invalid-date", EmptyDict))

\* raw data without a title: Resource.from_dict raises KeyError
RawNoTitle ==
    Dict([f \in {"content", "author", "url", "publication_date", "metadata"} |->
            RawData("T3", "Text B", "https://example.com/a", "2024-01-01T00:00:00Z",
                    WeakMetadata)[f]])

\* valid data whose view_count is no number: the metrics collector raises
RawBadSignal ==
    Dict(WithId(RawData("T4", "Text B", "https://example.com/a", "2024-01-01T00:00:00Z",
                        DictSet(WeakMetadata, "view_count", Str("many"))),
                SuppliedId("r2")))

\* valid data whose metadata holds a value json cannot serialise
RawUnserializable ==
    Dict(WithId(RawData("T5", "Text B", "https://example.com/a", "2024-01-01T00:00:00Z",
                        DictSet(WeakMetadata, "tags", Obj("set"))),
                SuppliedId("r2")))

\* raw data with the caller's identifier r1
RawR1 ==
    Dict(WithId(RawData("T2", "Text B", "https://example.com/a", "2024-01-01T00:00:00Z",
                        WeakMetadata), SuppliedId("r1")))

\* raw data with the caller's identifier r3
RawR3 ==
    Dict(WithId(RawData("T6", "Text A", "https://example.com/a", "2024-01-01T00:00:00Z",
                        SampleMetadata), SuppliedId("r3")))

\* valid raw data with the caller's identifier r2
RawR2 ==
    Dict(WithId(RawData("T4", "Text B", "https://example.com/a", "2024-01-01T00:00:00Z",
                        WeakMetadata), SuppliedId("r2")))

\* valid data whose review_count is no number: the calculation of the rating
\* raises
RawBadReview ==
    Dict(WithId(RawData("T4", "Text B", "https://example.com/a", "2024-01-01T00:00:00Z",
                        DictSet(WeakMetadata, "review_count", Str("many"))),
                SuppliedId("r2")))

\* raw data with the caller's identifier r4 whose url is a number
RawIllTyped ==
    Dict(WithId(DictSet(RawData("T3", "Text B", "https://example.com/a",
                                "2024-01-01T00:00:00Z", WeakMetadata),
                        "url", Num(5 * Scale)),
                SuppliedId("r4")))

\* inputs of rate_resource that fail: in validation, in the metrics, in the
\* calculation; and a valid one for the same identifier
ErrorInputs == {RawR2, RawBadSignal, RawBadReview, RawInvalid, RawNoTitle, RawIllTyped}

RateInputs == {RawNoId, ObjT1, RawInvalid, RawUnserializable}

BulkInputs == {RawR1, RawR3, RawBadSignal}

----------------------------------------------------------------------------
(* core/rating_service.py: rate_resource as a state machine *)

IdleReq ==
    [ pc |-> "Idle", input |-> NoneValue, force_refresh |-> FALSE,
      resource |-> NoneValue, result |-> NoneValue, error |-> "",
      trace |-> <<>>, found |-> "", found_last_rated |-> NoTime,
      again |-> NoneValue ]

\* raise: the request ends in Failed
Fail(rq, error) ==
    [rq EXCEPT !.pc = "Failed", !.error = error, !.trace = Append(rq.trace, "Failed")]

\* lines 59-66 of rate_resource: validation and preparation at time t
ValidateAndPrepare(rq, t) ==
    Only({ IF ValidateRaises(data.dict) THEN Fail(rq, "TypeError")
           ELSE IF ValidateResourceData(data.dict) # {} THEN Fail(rq, "ValueError")
           ELSE [rq EXCEPT !.pc = "MetricsGathering",
                           !.resource = Only({ FromDict(processed_data, <<t, 0>>) :
                                                 processed_data \in
                                                    {PrepareResourceData(data)} }),
                           !.trace = Append(rq.trace, "MetricsGathering")] :
           data \in {ToDict(rq.resource)} })

\* lines 48-50 of rate_resource at time t, the n-th reading of time() in that
\* hour: the request as it is received
Receive(old, input, force_refresh, t, n) ==
    LET rq == [ IdleReq EXCEPT !.input = input, !.force_refresh = force_refresh,
                               !.trace = <<"Received">>,
                               !.again = IF /\ old.pc = "Done" /\ old.input = input
                                            /\ ~old.force_refresh /\ ~force_refresh
                                         THEN [resource |-> old.result]
                                         ELSE NoneValue ]
    IN IF ~IsResource(input) /\ FromDictRaises(input) THEN Fail(rq, "KeyError")
       ELSE LET r == IF IsResource(input) THEN input.resource
                     ELSE FromDict(input, <<t, n>>)
                rq1 == [rq EXCEPT !.resource = r]
            IN IF force_refresh THEN ValidateAndPrepare(rq1, t)
               ELSE [rq1 EXCEPT !.pc = "CacheCheck", !.trace = Append(rq.trace, "CacheCheck")]

\* the cache check that takes every answer of the cache for a miss
AfterCacheGetAlwaysMiss(rq, cached_result, t) ==
    ValidateAndPrepare([rq EXCEPT !.found = "miss"], t)

\* lines 53-57 of rate_resource at time t, given what cache_manager.get returned
AfterCacheGet(rq, cached_result, t) ==
    IF Truthy(cached_result)
    THEN IF FromDictRaises(cached_result)
         THEN Fail([rq EXCEPT !.found = "undeserializable"], "KeyError")
         ELSE Only({ IF ~IsStale(cached, t)
                     THEN [rq EXCEPT !.pc = "Done", !.found = "fresh",
                                     !.result = cached,
                                     !.trace = Append(rq.trace, "Done")]
                     ELSE ValidateAndPrepare(
                            [rq EXCEPT !.found = "stale",
                                       !.found_last_rated = cached.last_rated], t) :
                     cached \in {FromDict(cached_result, <<t, 0>>)} })
    ELSE ValidateAndPrepare([rq EXCEPT !.found = "miss"], t)

\* a metrics step that goes on to the cache write, leaving out the scoring
AfterCollectMetricsSkipsScoring(rq) ==
    IF CollectMetricsRaises(rq.resource) THEN Fail(rq, "TypeError")
    ELSE [rq EXCEPT !.pc = "CacheWrite", !.resource = CollectMetrics(rq.resource),
                    !.trace = Append(rq.trace, "CacheWrite")]

\* a metrics step that drops the error and goes on with the resource as it is
AfterCollectMetricsQuiet(rq) ==
    [rq EXCEPT !.pc = "Scoring",
               !.resource = IF CollectMetricsRaises(rq.resource) THEN rq.resource
                            ELSE CollectMetrics(rq.resource),
               !.trace = Append(rq.trace, "Scoring")]

\* line 69 of rate_resource
AfterCollectMetrics(rq) ==
    IF CollectMetricsRaises(rq.resource) THEN Fail(rq, "TypeError")
    ELSE [rq EXCEPT !.pc = "Scoring", !.resource = CollectMetrics(rq.resource),
                    !.trace = Append(rq.trace, "Scoring")]

\* line 72 of rate_resource at time t
AfterCalculateRating(rq, t) ==
    IF CalculateRatingRaises(rq.resource) THEN Fail(rq, "TypeError")
    ELSE [rq EXCEPT !.pc = "CacheWrite", !.resource = CalculateRating(rq.resource, t),
                    !.trace = Append(rq.trace, "CacheWrite")]

\* lines 75-82 of rate_resource, given whether cache_manager.set raised
AfterCacheSet(rq, raised) ==
    IF raised THEN Fail(rq, "TypeError")
    ELSE [rq EXCEPT !.pc = "Done", !.result = rq.resource,
                    !.trace = Append(rq.trace, "Done")]

Resting == {"Idle", "Done", "Failed"}

\* the last operation on the store: its name and arguments, what it returned,
\* whether it raised, and the keys it removed from the store, in order
NoOp == [name |-> "none", key |-> NoId, value |-> NoneValue, expire_hours |-> 0,
         ret |-> NoneValue, raised |-> FALSE, evicted |-> <<>>, by |-> 0]

\* bulk_rate_resources: i is the start of the chunk, j the place in the chunk,
\* waiting tells that rate_resource is running for resources[i + j]
IdleBulk ==
    [ pc |-> "Idle", resources |-> <<>>, batch_size |-> 0, i |-> 0, j |-> 0,
      rated_resources |-> <<>>, waiting |-> FALSE, by |-> 0 ]

\* the loop of bulk_rate_resources moves on to the chunk that starts at i, or
\* returns when the list is used up
NextChunk(b, i) ==
    IF i < Len(b.resources) THEN [b EXCEPT !.i = i, !.j = 0, !.waiting = FALSE]
    ELSE [b EXCEPT !.pc = "Returned", !.i = i, !.j = 0, !.waiting = FALSE]

\* line 212 of bulk_rate_resources: range(0, len(resources), batch_size) raises
\* ValueError for a step of 0 and is empty for a negative step
BulkStart(resources, batch_size, p) ==
    LET b == [IdleBulk EXCEPT !.resources = resources, !.batch_size = batch_size,
                              !.by = p]
    IN IF batch_size = 0 THEN [b EXCEPT !.pc = "Raised"]
       ELSE IF batch_size < 0 THEN [b EXCEPT !.pc = "Returned"]
       ELSE NextChunk([b EXCEPT !.pc = "Running"], 0)

\* lines 217-225 of bulk_rate_resources, once rate_resource has ended as rq
BulkAfterRate(b, rq) ==
    IF rq.pc = "Done"
    THEN LET b1 == [b EXCEPT !.rated_resources = Append(b.rated_resources, rq.result)]
         IN IF b.j + 1 < b.batch_size /\ b.i + b.j + 1 < Len(b.resources)
            THEN [b1 EXCEPT !.j = b.j + 1, !.waiting = FALSE]
            ELSE NextChunk(b1, b.i + b.batch_size)
    ELSE NextChunk(b, b.i + b.batch_size)

----------------------------------------------------------------------------
(* The state machine *)

Callers == {1}

\* cache directories the service may be started on
EmptyDir == [files |-> EmptyDict, index |-> NoIndex]

\* a directory holding one entry, written for key k with the given expiry
DirWith(k, data, expiry) ==
    [ files |-> [f \in {k} |-> JsonText(data)],
      index |-> [state |-> "ok",
                 entries |-> << [key |-> k, expiry |-> IsoFormat(expiry),
                                 size |-> JsonLen(data)] >>] ]

\* a directory whose entry for ObjT1 is json that is no snapshot of a Resource,
\* and one whose entry is the snapshot of the Resource before it was rated
InitialDirs ==
    { EmptyDir,
      DirWith(ObjT1.resource.resource_id, Dict([data |-> Str("x")]), ExpireHours),
      DirWith(ObjT1.resource.resource_id, ToDict(ObjT1.resource), ExpireHours) }

\* the outcomes of a write on the disk as it is
Outcomes == IF disk = "ok" THEN {"ok"} ELSE {disk}

\* RatingService.__init__ / CacheManager.__init__ on the directory dir
\* no function of the calculator has been called
NoCall == [fn |-> "none", args |-> <<>>, pc |-> "none", ret |-> NoScore, raised |-> ""]

\* the threads that call one CacheManager concurrently
Threads == {1, 2}

\* a thread outside the store
IdleThread ==
    [pc |-> "idle", name |-> "none", key |-> NoId, value |-> NoneValue,
     expire_hours |-> 0, t |-> NoTime, data |-> NoneValue, expiry |-> NoTime,
     ret |-> NoneValue, raised |-> FALSE,
     snap |-> [memory_cache |-> <<>>, files |-> EmptyDict, index |-> NoIndex]]

\* self.cache_lock = Lock(): nobody holds it (0), every thread outside
NoThreads == [lock |-> 0, th |-> [p \in Threads |-> IdleThread]]

InitOn(dir) ==
    LET s == LoadCache(dir.files, dir.index, 0)
    IN /\ now = 0
       /\ disk \in (IF dir = EmptyDir THEN WriteOutcomes ELSE {"ok"})
       /\ memory_cache = s.memory_cache
       /\ files = s.files
       /\ index = s.index
       /\ req = [p \in Callers |-> IdleReq]
       /\ bulk = IdleBulk
       /\ op = NoOp
       /\ inserted = EmptyDict
       /\ calls = 0
       /\ thr = NoThreads
       /\ res = NoneValue

Init == calc = NoCall /\ \E dir \in InitialDirs : InitOn(dir)

InitEmpty == calc = NoCall /\ InitOn(EmptyDir)

\* the clock advances
Tick ==
    /\ now + TickHours <= MaxTime
    /\ now' = now + TickHours
    /\ op' = NoOp
    /\ UNCHANGED <<calc, res, thr, memory_cache, files, index, disk, req, bulk, inserted, calls>>

\* a caller calls rate_resource(input, force_refresh)
RateCall(p, input, force_refresh) ==
    /\ req[p].pc \in Resting
    /\ bulk.pc # "Running"
    /\ calls < MaxCalls
    /\ calls' = calls + 1
    /\ req' = [req EXCEPT ![p] = Receive(req[p], input, force_refresh, now, calls + 1)]
    /\ op' = NoOp
    /\ UNCHANGED <<calc, res, thr, now, memory_cache, files, index, disk, bulk, inserted>>

\* lines 53-66 of rate_resource: cache_manager.get, the staleness check, and on
\* a miss validation and preparation
CacheCheck(p) ==
    /\ req[p].pc = "CacheCheck"
    /\ \E g \in {StoreGet(memory_cache, files, req[p].resource.resource_id, now)} :
          /\ memory_cache' = g.memory_cache
          /\ files' = g.files
          /\ req' = [req EXCEPT ![p] = AfterCacheGet(req[p], g.ret, now)]
          /\ op' = [NoOp EXCEPT !.name = "get", !.key = req[p].resource.resource_id,
                                !.ret = g.ret, !.evicted = g.evicted, !.by = p]
    /\ UNCHANGED <<calc, res, thr, now, index, disk, bulk, inserted, calls>>

\* line 69 of rate_resource: _collect_metrics
MetricsGathering(p) ==
    /\ req[p].pc = "MetricsGathering"
    /\ req' = [req EXCEPT ![p] = AfterCollectMetrics(req[p])]
    /\ op' = NoOp
    /\ UNCHANGED <<calc, res, thr, now, memory_cache, files, index, disk, bulk, inserted, calls>>

\* line 72 of rate_resource: _calculate_rating
Scoring(p) ==
    /\ req[p].pc = "Scoring"
    /\ req' = [req EXCEPT ![p] = AfterCalculateRating(req[p], now)]
    /\ op' = NoOp
    /\ UNCHANGED <<calc, res, thr, now, memory_cache, files, index, disk, bulk, inserted, calls>>

\* lines 75-82 of rate_resource: cache_manager.set
CacheWrite(p, itemOutcome, indexOutcome) ==
    /\ req[p].pc = "CacheWrite"
    /\ \E k \in {req[p].resource.resource_id}, value \in {ToDict(req[p].resource)} :
       \E s \in {StoreSet(memory_cache, files, index, k, value, ExpireHours, now,
                           itemOutcome, indexOutcome)} :
          /\ memory_cache' = s.memory_cache
          /\ files' = s.files
          /\ index' = s.index
          /\ req' = [req EXCEPT ![p] = AfterCacheSet(req[p], s.raised)]
          /\ op' = [NoOp EXCEPT !.name = "set", !.key = k, !.value = value,
                                !.expire_hours = ExpireHours, !.raised = s.raised,
                                !.evicted = s.evicted, !.by = p]
    /\ UNCHANGED <<calc, res, thr, now, disk, bulk, inserted, calls>>

\* the data file of an entry is overwritten with text json cannot parse
\* (test_system_recovery)
CorruptFile(k) ==
    /\ k \in DOMAIN files
    /\ files[k] # Unparseable
    /\ files' = [files EXCEPT ![k] = Unparseable]
    /\ op' = NoOp
    /\ UNCHANGED <<calc, res, thr, now, memory_cache, index, disk, req, bulk, inserted, calls>>

\* the process ends and a new service is constructed on the same directory
Restart ==
    /\ \A p \in Callers : req[p].pc \in Resting
    /\ bulk.pc # "Running"
    /\ LET s == LoadCache(files, index, now)
       IN /\ memory_cache' = s.memory_cache
          /\ files' = s.files
          /\ index' = s.index
    /\ req' = [p \in Callers |-> IdleReq]
    /\ bulk' = IdleBulk
    /\ op' = [NoOp EXCEPT !.name = "load", !.ret = Str(index.state)]
    /\ UNCHANGED <<calc, res, thr, now, disk, inserted, calls>>

\* a caller calls bulk_rate_resources(resources, batch_size), once in a run
BulkCall(p, resources, batch_size) ==
    /\ req[p].pc \in Resting
    /\ bulk.pc = "Idle"
    /\ bulk' = BulkStart(resources, batch_size, p)
    /\ op' = NoOp
    /\ UNCHANGED <<calc, res, thr, now, memory_cache, files, index, disk, req, inserted, calls>>

\* line 219 of bulk_rate_resources: rate_resource(resource_data) is called
BulkRate(p) ==
    /\ bulk.pc = "Running" /\ bulk.by = p /\ ~bulk.waiting
    /\ req' = [req EXCEPT ![p] = Receive(req[p], bulk.resources[bulk.i + bulk.j + 1],
                                         FALSE, now, bulk.i + bulk.j + 1)]
    /\ bulk' = [bulk EXCEPT !.waiting = TRUE]
    /\ op' = NoOp
    /\ UNCHANGED <<calc, res, thr, now, memory_cache, files, index, disk, inserted, calls>>

\* lines 219-225 of bulk_rate_resources: rate_resource returned or raised
BulkCollect(p) ==
    /\ bulk.pc = "Running" /\ bulk.by = p /\ bulk.waiting
    /\ req[p].pc \in {"Done", "Failed"}
    /\ bulk' = BulkAfterRate(bulk, req[p])
    /\ op' = NoOp
    /\ UNCHANGED <<calc, res, thr, now, memory_cache, files, index, disk, req, inserted, calls>>

Next ==
    \/ Tick
    \/ \E p \in Callers, input \in RateInputs, force_refresh \in BOOLEAN :
          RateCall(p, input, force_refresh)
    \/ \E p \in Callers : CacheCheck(p)
    \/ \E p \in Callers : MetricsGathering(p)
    \/ \E p \in Callers : Scoring(p)
    \/ \E p \in Callers, itemOutcome \in Outcomes, indexOutcome \in Outcomes :
          CacheWrite(p, itemOutcome, indexOutcome)
    \/ \E k \in DOMAIN files : CorruptFile(k)
    \/ Restart

Spec == Init /\ [][Next]_vars

\* a directory an earlier process left: the entry for ObjT1, and an entry that
\* a caller of the store set with expire_hours=48
WarmDir ==
    LET k == ObjT1.resource.resource_id
        other == SuppliedId("k9")
        data == Dict([data |-> Str("x")])
        long == Dict([data |-> Str("xxx")])
    IN [ files |-> [f \in {k, other} |-> IF f = k THEN JsonText(data) ELSE JsonText(long)],
         index |-> [state |-> "ok",
                    entries |-> << [key |-> k, expiry |-> IsoFormat(ExpireHours),
                                    size |-> JsonLen(data)],
                                   [key |-> other, expiry |-> IsoFormat(2 * ExpireHours),
                                    size |-> JsonLen(long)] >>] ]

InitWarm == calc = NoCall /\ InitOn(WarmDir)

\* the service started on the directory an earlier process left
SpecWarm == InitWarm /\ [][Next]_vars

\* the statements of rate_resource that follow the call: the thread of caller
\* p runs on from one to the next
RequestStep(p) ==
    \/ CacheCheck(p)
    \/ MetricsGathering(p)
    \/ Scoring(p)
    \/ \E itemOutcome \in Outcomes, indexOutcome \in Outcomes :
          CacheWrite(p, itemOutcome, indexOutcome)

\* rate_resource is straight-line code without a loop or a wait on another
\* request: a call that can take its next statement takes it
SpecFair == Spec /\ \A p \in Callers : WF_vars(RequestStep(p))

\* sequences of at most n elements of S
RECURSIVE SeqsUpTo(_, _)
SeqsUpTo(S, n) ==
    IF n = 0 THEN {<<>>}
    ELSE LET shorter == SeqsUpTo(S, n - 1)
         IN shorter \cup {Append(s, x) : s \in shorter, x \in S}

\* the keys, values and lifetimes the callers of the store use
StoreKeys == {SuppliedId("k1"), SuppliedId("k2"), SuppliedId("k3")}
StoreValues == {Dict([data |-> Str("x")]), Dict([data |-> Str("xxx")])}
Lifetimes == {TickHours, ExpireHours}

\* a caller calls cache_manager.get(key)
Get(p, k) ==
    /\ calls < MaxStoreCalls
    /\ calls' = calls + 1
    /\ LET g == StoreGet(memory_cache, files, k, now)
       IN /\ memory_cache' = g.memory_cache
          /\ files' = g.files
          /\ op' = [NoOp EXCEPT !.name = "get", !.key = k, !.ret = g.ret,
                                !.evicted = g.evicted, !.by = p]
    /\ UNCHANGED <<calc, res, thr, now, index, disk, req, bulk, inserted>>

\* a caller calls cache_manager.set(key, value, expire_hours)
Set(p, k, value, expire_hours, itemOutcome, indexOutcome) ==
    /\ calls < MaxStoreCalls
    /\ calls' = calls + 1
    /\ LET s == StoreSet(memory_cache, files, index, k, value, expire_hours, now,
                         itemOutcome, indexOutcome)
       IN /\ memory_cache' = s.memory_cache
          /\ files' = s.files
          /\ index' = s.index
          /\ op' = [NoOp EXCEPT !.name = "set", !.key = k, !.value = value,
                                !.expire_hours = expire_hours, !.raised = s.raised,
                                !.evicted = s.evicted, !.by = p]
          /\ inserted' = IF s.raised THEN inserted
                         ELSE DictSet(inserted, k, JsonLen(value))
    /\ UNCHANGED <<calc, res, thr, now, disk, req, bulk>>

\* a caller calls cache_manager.delete(key)
Delete(p, k, indexOutcome) ==
    /\ calls < MaxStoreCalls
    /\ calls' = calls + 1
    /\ LET d == StoreDelete(memory_cache, files, index, k, indexOutcome)
       IN /\ memory_cache' = d.memory_cache
          /\ files' = d.files
          /\ index' = d.index
    /\ op' = [NoOp EXCEPT !.name = "delete", !.key = k, !.by = p,
                          !.evicted = IF HasKey(memory_cache, k) THEN <<k>> ELSE <<>>]
    /\ UNCHANGED <<calc, res, thr, now, disk, req, bulk, inserted>>

\* a caller calls cache_manager.clear_cache()
Clear(p) ==
    /\ calls < MaxStoreCalls
    /\ calls' = calls + 1
    /\ memory_cache' = StoreClear.memory_cache
    /\ files' = StoreClear.files
    /\ index' = StoreClear.index
    /\ op' = [NoOp EXCEPT !.name = "clear", !.by = p,
                          !.evicted = [i \in 1..Len(memory_cache) |-> memory_cache[i].key]]
    /\ UNCHANGED <<calc, res, thr, now, disk, req, bulk, inserted>>

NextStore ==
    \/ Tick
    \/ \E p \in Callers, k \in StoreKeys : Get(p, k)
    \/ \E p \in Callers, k \in StoreKeys, value \in StoreValues,
          expire_hours \in Lifetimes, itemOutcome \in Outcomes,
          indexOutcome \in Outcomes :
          Set(p, k, value, expire_hours, itemOutcome, indexOutcome)
    \/ \E p \in Callers, k \in StoreKeys, indexOutcome \in Outcomes :
          Delete(p, k, indexOutcome)
    \/ \E p \in Callers : Clear(p)

\* the operations of the store, called directly, on an empty directory
SpecStore == InitEmpty /\ [][NextStore]_vars

\* the index file is overwritten with text json cannot parse
\* (test_cache_index_corruption)
CorruptIndexFile ==
    /\ index.state # "corrupt"
    /\ index' = CorruptIndex
    /\ op' = NoOp
    /\ UNCHANGED <<calc, res, thr, now, memory_cache, files, disk, req, bulk, inserted, calls>>

\* the snapshot rate_resource hands to set() for ObjT1, rated at time 0
RatedSnapshot ==
    ToDict(AfterCalculateRating(
             AfterCollectMetrics(Receive(IdleReq, ObjT1, TRUE, 0, 1)), 0).resource)

\* the keys and values of the callers of a store that is restarted
RestartKeys == {SuppliedId("k1"), SuppliedId("k2")}
\* a value json cannot serialise: the function of test_invalid_cache_data
NotSerializable == Obj("function")

RestartValues == {Dict([data |-> Str("xxx")]), RatedSnapshot, NotSerializable}

NextRestart ==
    \/ Tick
    \/ \E p \in Callers, k \in RestartKeys :
          calls < MaxRestartCalls /\ Get(p, k)
    \/ \E p \in Callers, k \in RestartKeys, value \in RestartValues,
          expire_hours \in Lifetimes, itemOutcome \in Outcomes,
          indexOutcome \in Outcomes :
          calls < MaxRestartCalls
          /\ Set(p, k, value, expire_hours, itemOutcome, indexOutcome)
    \/ \E p \in Callers, k \in RestartKeys, indexOutcome \in Outcomes :
          calls < MaxRestartCalls /\ Delete(p, k, indexOutcome)
    \/ \E p \in Callers : calls < MaxRestartCalls /\ Clear(p)
    \/ CorruptIndexFile
    \/ Restart

\* the operations of the store and restarts of the process, on a directory
\* that is empty at first
SpecRestart == InitEmpty /\ [][NextRestart]_vars

\* Lock.acquire(): the lock can be taken when no thread holds it
LockAlwaysAvailable(holder) == TRUE

LockAvailable(holder) == holder = 0

\* the first statement of each operation inside "with self.cache_lock"
FirstStatement(name) ==
    CASE name = "get" -> "get_check"
      [] name = "set" -> "set_assign"
      [] name = "delete" -> "del_check"
      [] name = "clear" -> "clear_mem"

\* the store as the threads see it
Store == [memory_cache |-> memory_cache, files |-> files, index |-> index]

\* one statement of thread p: the store and the thread afterwards
Statement(p, mc, fs, idx, me) ==
    /\ memory_cache' = mc
    /\ files' = fs
    /\ index' = idx
    /\ thr' = [thr EXCEPT !.th[p] = me]
    /\ UNCHANGED <<calc, res, now, disk, req, bulk, op, inserted, calls>>

\* thread p calls get, set, delete or clear_cache and arrives at
\* "with self.cache_lock"
ThreadCall(p, name, k, value, expire_hours) ==
    /\ calls < MaxThreadCalls
    /\ thr.th[p].pc = "idle"
    /\ calls' = calls + 1
    /\ thr' = [thr EXCEPT !.th[p] = [IdleThread EXCEPT !.pc = "wait", !.name = name,
                                                       !.key = k, !.value = value,
                                                       !.expire_hours = expire_hours]]
    /\ UNCHANGED <<calc, res, now, memory_cache, files, index, disk, req, bulk, op, inserted>>

\* thread p enters "with self.cache_lock"
Acquire(p) ==
    /\ thr.th[p].pc = "wait"
    /\ LockAvailable(thr.lock)
    /\ thr' = [thr EXCEPT !.lock = p,
                          !.th[p].pc = FirstStatement(thr.th[p].name),
                          !.th[p].snap = Store]
    /\ UNCHANGED <<calc, res, now, memory_cache, files, index, disk, req, bulk, op, inserted, calls>>

\* the statements of get inside the lock
GetStep(p) ==
    LET me == thr.th[p]
    IN /\ me.name = "get"
       /\ CASE me.pc = "get_check" ->
                 IF HasKey(memory_cache, me.key)
                 THEN Statement(p, memory_cache, files, index,
                                [me EXCEPT !.pc = "get_expiry",
                                           !.data = Lookup(memory_cache, me.key).data,
                                           !.expiry = Lookup(memory_cache, me.key).expiry])
                 ELSE Statement(p, memory_cache, files, index, [me EXCEPT !.pc = "release"])
            [] me.pc = "get_expiry" ->
                 IF me.expiry > now
                 THEN Statement(p, memory_cache, files, index,
                                [me EXCEPT !.pc = "release", !.t = now, !.ret = me.data])
                 ELSE Statement(p, memory_cache, files, index,
                                [me EXCEPT !.pc = "get_del", !.t = now])
            [] me.pc = "get_del" ->
                 IF HasKey(memory_cache, me.key)
                 THEN Statement(p, Del(memory_cache, me.key), files, index,
                                [me EXCEPT !.pc = "get_remove"])
                 ELSE Statement(p, memory_cache, files, index,
                                [me EXCEPT !.pc = "release", !.raised = TRUE])
            [] me.pc = "get_remove" ->
                 Statement(p, memory_cache, RemoveFile(files, me.key), index,
                           [me EXCEPT !.pc = "release"])
            [] OTHER -> FALSE

\* the statements of set inside the lock
SetStep(p) ==
    LET me == thr.th[p]
    IN /\ me.name = "set"
       /\ CASE me.pc = "set_assign" ->
                 Statement(p, Assign(memory_cache, me.key, me.value, now + me.expire_hours),
                           files, index, [me EXCEPT !.pc = "set_item", !.t = now])
            [] me.pc = "set_item" ->
                 \E o \in Outcomes :
                    Statement(p, memory_cache, SaveCacheItem(files, me.key, me.value, o),
                              index, [me EXCEPT !.pc = "set_index"])
            [] me.pc = "set_index" ->
                 \E o \in Outcomes :
                    Statement(p, memory_cache, files, SaveCacheIndex(index, memory_cache, o),
                              [me EXCEPT !.pc = "set_cleanup"])
            [] me.pc = "set_cleanup" ->
                 IF SizeRaises(memory_cache)
                 THEN Statement(p, memory_cache, files, index,
                                [me EXCEPT !.pc = "release", !.raised = TRUE])
                 ELSE LET evicted == CleanupOldCache(memory_cache, MaxSizeBytes)
                      IN Statement(p, Without(memory_cache, Range(evicted)),
                                   [f \in (DOMAIN files) \ Range(evicted) |-> files[f]],
                                   index, [me EXCEPT !.pc = "release"])
            [] OTHER -> FALSE

\* the statements of delete inside the lock
DeleteStep(p) ==
    LET me == thr.th[p]
    IN /\ me.name = "delete"
       /\ CASE me.pc = "del_check" ->
                 Statement(p, memory_cache, files, index,
                           [me EXCEPT !.pc = IF HasKey(memory_cache, me.key)
                                             THEN "del_del" ELSE "release"])
            [] me.pc = "del_del" ->
                 IF HasKey(memory_cache, me.key)
                 THEN Statement(p, Del(memory_cache, me.key), files, index,
                                [me EXCEPT !.pc = "del_remove"])
                 ELSE Statement(p, memory_cache, files, index,
                                [me EXCEPT !.pc = "release", !.raised = TRUE])
            [] me.pc = "del_remove" ->
                 Statement(p, memory_cache, RemoveFile(files, me.key), index,
                           [me EXCEPT !.pc = "del_index"])
            [] me.pc = "del_index" ->
                 \E o \in Outcomes :
                    Statement(p, memory_cache, files, SaveCacheIndex(index, memory_cache, o),
                              [me EXCEPT !.pc = "release"])
            [] OTHER -> FALSE

\* the statements of clear_cache inside the lock
ClearStep(p) ==
    LET me == thr.th[p]
    IN /\ me.name = "clear"
       /\ CASE me.pc = "clear_mem" ->
                 Statement(p, <<>>, files, index, [me EXCEPT !.pc = "clear_files"])
            [] me.pc = "clear_files" ->
                 Statement(p, memory_cache, StoreClear.files, StoreClear.index,
                           [me EXCEPT !.pc = "release"])
            [] OTHER -> FALSE

\* an operation that returns or raises without giving the lock back
ReleaseKeepsLock(p) ==
    LET me == thr.th[p]
    IN /\ me.pc = "release"
       /\ thr' = [thr EXCEPT !.th[p].pc = "idle"]
       /\ op' = [NoOp EXCEPT !.name = me.name, !.key = me.key, !.value = me.value,
                             !.expire_hours = me.expire_hours, !.ret = me.ret,
                             !.raised = me.raised, !.by = p]
       /\ UNCHANGED <<calc, res, now, memory_cache, files, index, disk, req, bulk, inserted, calls>>

\* thread p leaves "with self.cache_lock" and the operation returns or raises
Release(p) ==
    LET me == thr.th[p]
    IN /\ me.pc = "release"
       /\ thr' = [thr EXCEPT !.lock = 0, !.th[p].pc = "idle"]
       /\ op' = [NoOp EXCEPT !.name = me.name, !.key = me.key, !.value = me.value,
                             !.expire_hours = me.expire_hours, !.ret = me.ret,
                             !.raised = me.raised, !.by = p]
       /\ UNCHANGED <<calc, res, now, memory_cache, files, index, disk, req, bulk, inserted, calls>>

ThreadKeys == {SuppliedId("k1"), SuppliedId("k2")}

NextThreads ==
    \/ Tick
    \/ \E p \in Threads, k \in ThreadKeys : ThreadCall(p, "get", k, NoneValue, 0)
    \/ \E p \in Threads, k \in ThreadKeys, value \in StoreValues,
          expire_hours \in Lifetimes : ThreadCall(p, "set", k, value, expire_hours)
    \/ \E p \in Threads, k \in ThreadKeys : ThreadCall(p, "delete", k, NoneValue, 0)
    \/ \E p \in Threads : ThreadCall(p, "clear", NoId, NoneValue, 0)
    \/ \E p \in Threads : Acquire(p)
    \/ \E p \in Threads : GetStep(p)
    \/ \E p \in Threads : SetStep(p)
    \/ \E p \in Threads : DeleteStep(p)
    \/ \E p \in Threads : ClearStep(p)
    \/ \E p \in Threads : Release(p)

\* two threads calling the operations of one store concurrently, on a
\* directory that is empty at first
SpecThreads == InitEmpty /\ [][NextThreads]_vars

----------------------------------------------------------------------------
(* get_cache_stats called while other threads call the operations of the
   store: get_cache_size and get_cache_stats do not take cache_lock *)

\* what get_cache_stats reports of the memory mc at time t
StatsOf(mc, t) ==
    [current_size_bytes |-> GetCacheSize(mc), item_count |-> Len(mc),
     expired_count |-> Cardinality({i \in 1..Len(mc) : mc[i].expiry <= t})]

\* the dict iterator raises RuntimeError (dictionary changed size during
\* iteration) when the dict has another number of keys than at its creation
IterationRaises(began, mc) == Len(began) # Len(mc)

\* thread p calls get_cache_stats()
StatsCall(p) ==
    /\ calls < MaxThreadCalls
    /\ thr.th[p].pc = "idle"
    /\ calls' = calls + 1
    /\ thr' = [thr EXCEPT !.th[p] = [IdleThread EXCEPT !.pc = "size_iter",
                                                       !.name = "stats", !.data = <<>>]]
    /\ UNCHANGED <<calc, res, now, memory_cache, files, index, disk, req, bulk, op, inserted>>

\* the statements of get_cache_stats, outside the lock: the sum of
\* get_cache_size from the creation of the iterator (size_iter) to its end
\* (size_sum), len(self.memory_cache) (len), and the sum over the expired
\* entries likewise (expired_iter, expired_sum). A sum over a dict that was
\* changed meanwhile and has the same number of keys reads the old or the new
\* entries. data keeps the memory and the time of each of the three readings.
StatsStep(p) ==
    LET me == thr.th[p]
        raise == [me EXCEPT !.pc = "return", !.raised = TRUE]
    IN /\ me.name = "stats"
       /\ CASE me.pc = "size_iter" ->
                 Statement(p, memory_cache, files, index,
                           [me EXCEPT !.pc = "size_sum", !.snap = Store])
            [] me.pc = "size_sum" ->
                 IF \/ IterationRaises(me.snap.memory_cache, memory_cache)
                    \/ SizeRaises(memory_cache)
                 THEN Statement(p, memory_cache, files, index, raise)
                 ELSE \E mc \in {me.snap.memory_cache, memory_cache} :
                         Statement(p, memory_cache, files, index,
                                   [me EXCEPT !.pc = "len",
                                              !.ret = [current_size_bytes |-> GetCacheSize(mc)],
                                              !.data = <<[memory_cache |-> mc, t |-> now]>>])
            [] me.pc = "len" ->
                 Statement(p, memory_cache, files, index,
                           [me EXCEPT !.pc = "expired_iter",
                                      !.ret = [current_size_bytes |-> me.ret.current_size_bytes,
                                               item_count |-> Len(memory_cache)],
                                      !.data = Append(me.data, [memory_cache |-> memory_cache,
                                                                t |-> now])])
            [] me.pc = "expired_iter" ->
                 Statement(p, memory_cache, files, index,
                           [me EXCEPT !.pc = "expired_sum", !.snap = Store])
            [] me.pc = "expired_sum" ->
                 IF IterationRaises(me.snap.memory_cache, memory_cache)
                 THEN Statement(p, memory_cache, files, index, raise)
                 ELSE \E mc \in {me.snap.memory_cache, memory_cache} :
                         Statement(p, memory_cache, files, index,
                                   [me EXCEPT !.pc = "return", !.t = now,
                                              !.ret = [current_size_bytes |-> me.ret.current_size_bytes,
                                                       item_count |-> me.ret.item_count,
                                                       expired_count |->
                                                          StatsOf(mc, now).expired_count],
                                              !.data = Append(me.data, [memory_cache |-> mc,
                                                                        t |-> now])])
            [] OTHER -> FALSE

\* get_cache_stats returns its dict or raises
StatsReturn(p) ==
    LET me == thr.th[p]
    IN /\ me.name = "stats"
       /\ me.pc = "return"
       /\ thr' = [thr EXCEPT !.th[p].pc = "idle"]
       /\ op' = [NoOp EXCEPT !.name = "stats", !.ret = me.ret, !.raised = me.raised,
                             !.by = p]
       /\ UNCHANGED <<calc, res, now, memory_cache, files, index, disk, req, bulk, inserted, calls>>

NextStats ==
    \/ Tick
    \/ \E p \in Threads : StatsCall(p)
    \/ \E p \in Threads : StatsStep(p)
    \/ \E p \in Threads : StatsReturn(p)
    \/ \E p \in Threads, k \in ThreadKeys : ThreadCall(p, "get", k, NoneValue, 0)
    \/ \E p \in Threads, k \in ThreadKeys, value \in StoreValues,
          expire_hours \in Lifetimes : ThreadCall(p, "set", k, value, expire_hours)
    \/ \E p \in Threads, k \in ThreadKeys : ThreadCall(p, "delete", k, NoneValue, 0)
    \/ \E p \in Threads : ThreadCall(p, "clear", NoId, NoneValue, 0)
    \/ \E p \in Threads : Acquire(p)
    \/ \E p \in Threads : GetStep(p)
    \/ \E p \in Threads : SetStep(p)
    \/ \E p \in Threads : DeleteStep(p)
    \/ \E p \in Threads : ClearStep(p)
    \/ \E p \in Threads : Release(p)

\* threads calling get_cache_stats and the operations of one store
\* concurrently, on a directory that is empty at first
SpecStats == InitEmpty /\ [][NextStats]_vars

----------------------------------------------------------------------------
(* rate_resource called by two threads for one identity, the operations of
   the store statement by statement *)

\* the data both threads call rate_resource with: one supplied identifier
RaceInput == RawR1

\* a service on an empty directory, a request per thread
InitRace ==
    /\ calc = NoCall
    /\ now = 0
    /\ disk \in WriteOutcomes
    /\ memory_cache = <<>>
    /\ files = EmptyDir.files
    /\ index = EmptyDir.index
    /\ req = [p \in Threads |-> IdleReq]
    /\ bulk = IdleBulk
    /\ op = NoOp
    /\ inserted = EmptyDict
    /\ calls = 0
    /\ thr = NoThreads
    /\ res = NoneValue

\* thread p calls rate_resource(RaceInput, force_refresh), once
RaceCall(p, force_refresh) ==
    /\ req[p].pc = "Idle"
    /\ RateCall(p, RaceInput, force_refresh)

\* line 53 of rate_resource: thread p calls cache_manager.get and arrives at
\* "with self.cache_lock"
CacheGetCall(p) ==
    /\ req[p].pc = "CacheCheck"
    /\ thr.th[p] = IdleThread
    /\ thr' = [thr EXCEPT !.th[p] = [IdleThread EXCEPT !.pc = "wait", !.name = "get",
                                         !.key = req[p].resource.resource_id]]
    /\ UNCHANGED <<calc, res, now, memory_cache, files, index, disk, req, bulk, op, inserted, calls>>

\* lines 53-66 of rate_resource: get has returned to thread p (or raised)
CacheGetReturn(p) ==
    /\ req[p].pc = "CacheCheck"
    /\ thr.th[p].pc = "idle" /\ thr.th[p].name = "get"
    /\ req' = [req EXCEPT ![p] = IF thr.th[p].raised THEN Fail(req[p], "KeyError")
                                  ELSE AfterCacheGet(req[p], thr.th[p].ret, now)]
    /\ thr' = [thr EXCEPT !.th[p] = IdleThread]
    /\ UNCHANGED <<calc, res, now, memory_cache, files, index, disk, bulk, op, inserted, calls>>

\* line 75 of rate_resource: thread p calls cache_manager.set with
\* resource.to_dict() and arrives at "with self.cache_lock"
CacheSetCall(p) ==
    /\ req[p].pc = "CacheWrite"
    /\ thr.th[p] = IdleThread
    /\ thr' = [thr EXCEPT !.th[p] = [IdleThread EXCEPT !.pc = "wait", !.name = "set",
                                         !.key = req[p].resource.resource_id,
                                         !.value = ToDict(req[p].resource),
                                         !.expire_hours = ExpireHours]]
    /\ UNCHANGED <<calc, res, now, memory_cache, files, index, disk, req, bulk, op, inserted, calls>>

\* lines 75-82 of rate_resource: set has returned to thread p (or raised)
CacheSetReturn(p) ==
    /\ req[p].pc = "CacheWrite"
    /\ thr.th[p].pc = "idle" /\ thr.th[p].name = "set"
    /\ req' = [req EXCEPT ![p] = AfterCacheSet(req[p], thr.th[p].raised)]
    /\ thr' = [thr EXCEPT !.th[p] = IdleThread]
    /\ UNCHANGED <<calc, res, now, memory_cache, files, index, disk, bulk, op, inserted, calls>>

NextRace ==
    \/ Tick
    \/ \E p \in Threads, force_refresh \in BOOLEAN : RaceCall(p, force_refresh)
    \/ \E p \in Threads : CacheGetCall(p)
    \/ \E p \in Threads : Acquire(p)
    \/ \E p \in Threads : GetStep(p)
    \/ \E p \in Threads : Release(p)
    \/ \E p \in Threads : CacheGetReturn(p)
    \/ \E p \in Threads : MetricsGathering(p)
    \/ \E p \in Threads : Scoring(p)
    \/ \E p \in Threads : CacheSetCall(p)
    \/ \E p \in Threads : SetStep(p)
    \/ \E p \in Threads : CacheSetReturn(p)

\* two threads rating one identity on one service
SpecRace == InitRace /\ [][NextRace]_vars

NextErrors ==
    \/ Tick
    \/ \E p \in Callers, input \in ErrorInputs, force_refresh \in BOOLEAN :
          RateCall(p, input, force_refresh)
    \/ \E p \in Callers : CacheCheck(p)
    \/ \E p \in Callers : MetricsGathering(p)
    \/ \E p \in Callers : Scoring(p)
    \/ \E p \in Callers, itemOutcome \in Outcomes, indexOutcome \in Outcomes :
          CacheWrite(p, itemOutcome, indexOutcome)

\* rate_resource called with inputs that fail, on a cache directory that is
\* empty at first
SpecErrors == InitEmpty /\ [][NextErrors]_vars

\* scores handed to update_score and set_final_score: -5.0, 0.5, 7.5, 15.0
ScoreInputs == {0 - 5 * Scale, Scale \div 2, (15 * Scale) \div 2, 15 * Scale}

\* the criteria update_score is called with: two of the five, and another
\* name (test_score_bounds uses 'test_criterion')
CriterionInputs == {"relevance", "clarity", "test_criterion"}

\* the metadata handed to set_final_score (test_set_final_score), and none
FinalScoreMetadata == {EmptyDict, [confidence |-> Num(95)]}

\* raw data that carries rating data: a score above 10 and a final score
RawScored ==
    Dict(DictSet(DictSet(RawNoId.dict, "scores", [relevance |-> 15 * Scale]),
                 "final_score", 5 * Scale))

\* the dicts Resource.from_dict is called with
ResourceDicts == {RawNoId, RawScored}

\* to_dict hands out the dicts scores and rating_metadata of the Resource
\* themselves, set() keeps the dict it is given and from_dict keeps the dicts
\* of its data: the entries under keys hold the very dicts of the Resource r,
\* and read what r has written to them
Aliased(mc, keys, r) ==
    [i \in 1..Len(mc) |->
       IF mc[i].key \in keys
       THEN [mc[i] EXCEPT !.data = Dict([mc[i].data.dict EXCEPT
                                          !.scores = r.scores,
                                          !.rating_metadata = r.rating_metadata])]
       ELSE mc[i]]

\* a caller constructs a Resource
Construct ==
    /\ calls < MaxResourceCalls
    /\ calls' = calls + 1
    /\ res' = [resource |->
                 NewResource(Str("T1"), Str("Text A"), Str("Author"),
                             Str("https://example.com/a"), Str("2024-01-01T00:00:00Z"),
                             Dict(SampleMetadata), NoId, <<now, calls + 1>>),
               shares |-> {}]
    /\ op' = [NoOp EXCEPT !.name = "construct"]
    /\ UNCHANGED <<calc, now, memory_cache, files, index, disk, req, bulk, inserted, thr>>

\* a caller calls Resource.from_dict(data)
ResourceFromDict(data) ==
    /\ calls < MaxResourceCalls
    /\ calls' = calls + 1
    /\ ~FromDictRaises(data)
    /\ res' = [resource |-> FromDict(data, <<now, calls + 1>>), shares |-> {}]
    /\ op' = [NoOp EXCEPT !.name = "from_dict", !.value = data]
    /\ UNCHANGED <<calc, now, memory_cache, files, index, disk, req, bulk, inserted, thr>>

\* a caller calls resource.update_score(criterion, score)
ResourceUpdateScore(criterion, score) ==
    /\ calls < MaxResourceCalls
    /\ calls' = calls + 1
    /\ res # NoneValue
    /\ res' = [res EXCEPT !.resource = UpdateScore(res.resource, criterion, score, now)]
    /\ memory_cache' = Aliased(memory_cache, res.shares, res'.resource)
    /\ op' = [NoOp EXCEPT !.name = "update_score", !.value = [str |-> criterion, num |-> score]]
    /\ UNCHANGED <<calc, now, files, index, disk, req, bulk, inserted, thr>>

\* a caller calls resource.set_final_score(score, metadata)
ResourceSetFinalScore(score, metadata) ==
    /\ calls < MaxResourceCalls
    /\ calls' = calls + 1
    /\ res # NoneValue
    /\ res' = [res EXCEPT !.resource = SetFinalScore(res.resource, score, metadata, now)]
    /\ memory_cache' = Aliased(memory_cache, res.shares, res'.resource)
    /\ op' = [NoOp EXCEPT !.name = "set_final_score", !.value = Num(score)]
    /\ UNCHANGED <<calc, now, files, index, disk, req, bulk, inserted, thr>>

\* lines 68-72 of rate_resource at time t: a validated request after metrics
\* and calculation
Computed(rq, t) ==
    LET collected == IF rq.pc = "MetricsGathering" THEN AfterCollectMetrics(rq) ELSE rq
    IN IF collected.pc = "Scoring" THEN AfterCalculateRating(collected, t) ELSE collected

\* rate_resource(resource, force_refresh=True) up to the cache write: the
\* request after validation, metrics and calculation at time t
RateOf(r, t) ==
    LET received == Receive(IdleReq, [resource |-> r], TRUE, t, 0)
        collected == IF received.pc = "MetricsGathering"
                     THEN AfterCollectMetrics(received) ELSE received
    IN IF collected.pc = "Scoring" THEN AfterCalculateRating(collected, t) ELSE collected

\* a caller rates the Resource it holds and keeps the Resource returned; the
\* Resources of these runs are valid, so the rating goes through to the cache
\* write
ResourceRate(itemOutcome, indexOutcome) ==
    /\ calls < MaxResourceCalls
    /\ calls' = calls + 1
    /\ res # NoneValue
    /\ LET rq == RateOf(res.resource, now)
           k == rq.resource.resource_id
           value == ToDict(rq.resource)
           s == StoreSet(memory_cache, files, index, k, value, ExpireHours, now,
                         itemOutcome, indexOutcome)
       IN /\ rq.pc = "CacheWrite"
          /\ ~s.raised
          /\ memory_cache' = s.memory_cache
          /\ files' = s.files
          /\ index' = s.index
          /\ res' = [resource |-> rq.resource, shares |-> {k}]
          /\ op' = [NoOp EXCEPT !.name = "set", !.key = k, !.value = value,
                                !.expire_hours = ExpireHours, !.evicted = s.evicted]
    /\ UNCHANGED <<calc, now, disk, req, bulk, inserted, thr>>

\* a caller calls rate_resource(resource) on the Resource it holds and keeps
\* the Resource returned: the one built from the cached dict on a fresh hit,
\* the one rated anew otherwise
ResourceRateCached(itemOutcome, indexOutcome) ==
    /\ calls < MaxResourceCalls
    /\ calls' = calls + 1
    /\ res # NoneValue
    /\ \E g \in {StoreGet(memory_cache, files, res.resource.resource_id, now)} :
       \E checked \in {AfterCacheGet(Receive(IdleReq, [resource |-> res.resource],
                                             FALSE, now, 0), g.ret, now)} :
       \E rq \in {Computed(checked, now)} :
          \/ /\ rq.pc = "Done"
             /\ memory_cache' = g.memory_cache
             /\ files' = g.files
             /\ index' = index
             /\ res' = [resource |-> rq.result, shares |-> {rq.result.resource_id}]
             /\ op' = [NoOp EXCEPT !.name = "get", !.key = res.resource.resource_id,
                                   !.ret = g.ret, !.evicted = g.evicted]
          \/ /\ rq.pc = "CacheWrite"
             /\ \E k \in {rq.resource.resource_id}, value \in {ToDict(rq.resource)} :
                \E s \in {StoreSet(g.memory_cache, g.files, index, k, value, ExpireHours,
                                   now, itemOutcome, indexOutcome)} :
                   /\ ~s.raised
                   /\ memory_cache' = s.memory_cache
                   /\ files' = s.files
                   /\ index' = s.index
                   /\ res' = [resource |-> rq.resource, shares |-> {k}]
                   /\ op' = [NoOp EXCEPT !.name = "set", !.key = k, !.value = value,
                                         !.expire_hours = ExpireHours,
                                         !.evicted = s.evicted]
    /\ UNCHANGED <<calc, now, disk, req, bulk, inserted, thr>>

NextResource ==
    \/ Construct
    \/ \E data \in ResourceDicts : ResourceFromDict(data)
    \/ \E criterion \in CriterionInputs, score \in ScoreInputs :
          ResourceUpdateScore(criterion, score)
    \/ \E score \in ScoreInputs, metadata \in FinalScoreMetadata :
          ResourceSetFinalScore(score, metadata)
    \/ \E itemOutcome \in Outcomes, indexOutcome \in Outcomes :
          ResourceRate(itemOutcome, indexOutcome)
    \/ \E itemOutcome \in Outcomes, indexOutcome \in Outcomes :
          ResourceRateCached(itemOutcome, indexOutcome)

\* the public operations on one Resource, in any order
SpecResource == InitEmpty /\ [][NextResource]_vars

\* the score values of the maps handed to calculate_final_score: 0.0, 3.0,
\* 3.1, 9.5, 10.0
ScoreValues == {0, 3 * Scale, (31 * Scale) \div 10, (95 * Scale) \div 10, 10 * Scale}

\* the score maps: every map from a subset of the five criteria to the values
ScoreMaps == UNION {[S -> ScoreValues] : S \in SUBSET Criteria}

\* the review_count arguments: 499 and 500
ReviewCounts == {499 * Scale, 500 * Scale}

\* the arguments of the criterion functions: counts and scores, negative ones
\* and zero among them
SignalValues == {0 - 2 * Scale, 0, 3 * Scale, 20 * Scale}

\* the max_* arguments: negative, zero, and the 10.0 rate_resource passes
MaxValues == {0 - 10 * Scale, 0, 10 * Scale}

\* the calls of the functions of RatingCalculator
CalculatorCalls ==
         {[fn |-> "calculate_final_score", args |-> <<scores, review_count>>] :
             scores \in ScoreMaps, review_count \in ReviewCounts}
    \cup {[fn |-> "calculate_relevance", args |-> <<a, b>>] :
             a \in {0 - 1, 0, 1, 3}, b \in {0 - 2, 0, 2}}
    \cup {[fn |-> "calculate_authority", args |-> <<a, b, m>>] :
             a \in SignalValues, b \in SignalValues, m \in MaxValues}
    \cup {[fn |-> "calculate_engagement", args |-> <<a, b, c, m>>] :
             a \in SignalValues, b \in SignalValues, c \in {0, 3 * Scale},
             m \in MaxValues}
    \cup {[fn |-> "calculate_clarity", args |-> <<a, b, c, m>>] :
             a \in {0 - 50 * Scale, 0, 60 * Scale}, b \in {0 - 1, 0, 4}, c \in BOOLEAN,
             m \in MaxValues}
    \cup {[fn |-> "calculate_impact", args |-> <<a, b, m>>] :
             a \in SignalValues, b \in SignalValues, m \in MaxValues}

\* a caller is about to call a function of the calculator
InitCalculator ==
    /\ InitOn(EmptyDir)
    /\ disk = "ok"
    /\ \E c \in CalculatorCalls :
          calc = [fn |-> c.fn, args |-> c.args, pc |-> "called", ret |-> NoScore,
                  raised |-> ""]

\* the call returns ret
Returns(ret) ==
    /\ calc' = [calc EXCEPT !.pc = "returned", !.ret = ret]
    /\ UNCHANGED <<now, memory_cache, files, index, disk, req, bulk, op, inserted, calls,
                   thr, res>>

\* calculate_final_score(scores, review_count)
CallCalculateFinalScore ==
    /\ calc.pc = "called" /\ calc.fn = "calculate_final_score"
    /\ IF FinalScoreRaises(calc.args[1])
       THEN /\ calc' = [calc EXCEPT !.pc = "raised", !.raised = "ValueError"]
            /\ UNCHANGED <<now, memory_cache, files, index, disk, req, bulk, op, inserted,
                           calls, thr, res>>
       ELSE Returns(CalculateFinalScore(calc.args[1], calc.args[2]))

\* calculate_relevance(matched_keywords, total_keywords)
CallCalculateRelevance ==
    /\ calc.pc = "called" /\ calc.fn = "calculate_relevance"
    /\ Returns(CalculateRelevance(calc.args[1], calc.args[2]))

\* calculate_authority(citations, credentials_score, max_authority)
CallCalculateAuthority ==
    /\ calc.pc = "called" /\ calc.fn = "calculate_authority"
    /\ Returns(CalculateAuthority(calc.args[1], calc.args[2], calc.args[3]))

\* calculate_engagement(interactions, session_time, social_shares, max_engagement)
CallCalculateEngagement ==
    /\ calc.pc = "called" /\ calc.fn = "calculate_engagement"
    /\ Returns(CalculateEngagement(calc.args[1], calc.args[2], calc.args[3], calc.args[4]))

\* calculate_clarity(readability_score, usability_features, has_cta, max_clarity)
CallCalculateClarity ==
    /\ calc.pc = "called" /\ calc.fn = "calculate_clarity"
    /\ Returns(CalculateClarity(calc.args[1], calc.args[2], calc.args[3], calc.args[4]))

\* calculate_impact(positive_outcomes, tangible_metrics, max_impact)
CallCalculateImpact ==
    /\ calc.pc = "called" /\ calc.fn = "calculate_impact"
    /\ Returns(CalculateImpact(calc.args[1], calc.args[2], calc.args[3]))

NextCalculator ==
    \/ CallCalculateFinalScore
    \/ CallCalculateRelevance
    \/ CallCalculateAuthority
    \/ CallCalculateEngagement
    \/ CallCalculateClarity
    \/ CallCalculateImpact

\* one call of a function of RatingCalculator, for each of the calls
SpecCalculator == InitCalculator /\ [][NextCalculator]_vars

\* the batch_size arguments: negative, zero, and up to the longest list
BatchSizes == (0 - 1)..MaxBulkLen

NextBulk ==
    \/ \E p \in Callers, resources \in SeqsUpTo(BulkInputs, MaxBulkLen),
          batch_size \in BatchSizes : BulkCall(p, resources, batch_size)
    \/ \E p \in Callers : BulkRate(p)
    \/ \E p \in Callers : CacheCheck(p)
    \/ \E p \in Callers : MetricsGathering(p)
    \/ \E p \in Callers : Scoring(p)
    \/ \E p \in Callers, itemOutcome \in Outcomes, indexOutcome \in Outcomes :
          CacheWrite(p, itemOutcome, indexOutcome)
    \/ \E p \in Callers : BulkCollect(p)

\* bulk_rate_resources on a service started on an empty directory
SpecBulk == InitEmpty /\ [][NextBulk]_vars

----------------------------------------------------------------------------
(* Properties of rate_resource *)

\* caller p takes the cache check step of its request
ChecksCache(p) == req[p].pc = "CacheCheck" /\ req'[p].pc # "CacheCheck"

\* the store holds an entry for key k that has not expired
HoldsUnexpired(k) == HasKey(memory_cache, k) /\ Lookup(memory_cache, k).expiry > now

\* the stages of a request that computes a rating and returns it
FullTrace == <<"Received", "CacheCheck", "MetricsGathering", "Scoring", "CacheWrite", "Done">>

\* the stages of a request served from the cache
CachedTrace == <<"Received", "CacheCheck", "Done">>

\* C1: when a caller rates the same input a second time without force_refresh,
\* and the result of the first call is still held by the cache, unexpired and
\* not stale, the second call ends at the cache check with the same resource_id
\* and the same scores as the first.
C1_SecondCallServedFromCache ==
    [][\A p \in Callers :
         (/\ ChecksCache(p)
          /\ req[p].again # NoneValue
          /\ HoldsUnexpired(req[p].again.resource.resource_id)
          /\ ~IsStale(req[p].again.resource, now))
         => /\ req'[p].pc = "Done"
            /\ req'[p].trace = CachedTrace
            /\ req'[p].result.resource_id = req[p].again.resource.resource_id
            /\ req'[p].result.scores = req[p].again.resource.scores
            /\ req'[p].result.final_score = req[p].again.resource.final_score]_vars

\* the snapshot the store holds for the resource of p's request is one of a
\* Resource whose last_rated is present and at most 24 hours old
HoldsFresh(p) ==
    LET k == req[p].resource.resource_id
        d == Lookup(memory_cache, k).data
    IN /\ HoldsUnexpired(k)
       /\ IsDict(d) /\ RequiredKeys \subseteq DOMAIN d.dict
       /\ "last_rated" \in DOMAIN d.dict /\ d.dict.last_rated # PyNone
       /\ now - FromIsoFormat(d.dict.last_rated) <= 24

\* C2: a request without force_refresh that finds an unexpired entry whose
\* Resource is not stale returns that Resource at the cache check: it passes
\* no validation, metrics gathering, scoring or cache write, and the store is
\* left as it was.
C2_FreshHitReturned ==
    [][\A p \in Callers :
         (ChecksCache(p) /\ HoldsFresh(p))
         => /\ req'[p].pc = "Done"
            /\ req'[p].trace = CachedTrace
            /\ ToDict(req'[p].result) =
                   Lookup(memory_cache, req[p].resource.resource_id).data
            /\ memory_cache' = memory_cache
            /\ files' = files
            /\ index' = index]_vars

\* a request has just been served from the cache
C2_Witness ==
    \E p \in Callers :
       /\ req[p].pc = "Done" /\ req[p].trace = CachedTrace
       /\ op.name = "get" /\ op.ret # NoneValue
       /\ req[p].result.last_rated # NoTime

\* the snapshot the store holds for the resource of p's request is one of a
\* Resource whose last_rated is absent or more than 24 hours old
HoldsStale(p) ==
    LET k == req[p].resource.resource_id
        d == Lookup(memory_cache, k).data
    IN /\ HoldsUnexpired(k)
       /\ IsDict(d) /\ RequiredKeys \subseteq DOMAIN d.dict
       /\ \/ "last_rated" \notin DOMAIN d.dict
          \/ d.dict.last_rated = PyNone
          \/ now - FromIsoFormat(d.dict.last_rated) > 24

\* last_rated of the snapshot d, NoTime when it has none
LastRatedOf(d) ==
    IF "last_rated" \in DOMAIN d.dict /\ d.dict.last_rated # PyNone
    THEN FromIsoFormat(d.dict.last_rated) ELSE NoTime

\* C5: a request without force_refresh that finds a stale Resource (last_rated
\* absent or older than 24 hours) is not answered with it but goes on to
\* recompute; when it returns it has passed metrics gathering, scoring and the
\* cache write, and the Resource it returns and the snapshot its cache write
\* stores carry a last_rated later than the stale one.
C5_StaleRecomputed ==
    [][\A p \in Callers :
         /\ (ChecksCache(p) /\ HoldsStale(p))
            => /\ req'[p].pc = "MetricsGathering"
               /\ req'[p].found_last_rated =
                      LastRatedOf(Lookup(memory_cache, req[p].resource.resource_id).data)
               /\ req'[p].result = NoneValue
         /\ (req[p].found = "stale" /\ req[p].pc = "CacheWrite" /\ req'[p].pc # "CacheWrite")
            => /\ req[p].resource.last_rated > req[p].found_last_rated
               /\ req[p].resource.last_rated <= now
               /\ req'[p].pc = "Done"
                  => /\ req'[p].trace = FullTrace
                     /\ req'[p].result.last_rated = req[p].resource.last_rated
               /\ HasKey(memory_cache', req[p].resource.resource_id)
                  => LastRatedOf(Lookup(memory_cache', req[p].resource.resource_id).data)
                        = req[p].resource.last_rated]_vars

\* a request that found a stale Resource rated more than 24 hours ago has
\* returned a recomputed one, which the store holds
C5_Witness ==
    \E p \in Callers :
       /\ req[p].pc = "Done" /\ req[p].found = "stale"
       /\ req[p].found_last_rated # NoTime
       /\ op.name = "set"
       /\ HasKey(memory_cache, req[p].result.resource_id)

\* C6: a request that finds, for its identity, a snapshot that cannot be
\* deserialised into a Resource goes on exactly as a request that found
\* nothing: it does not fail at the cache check.
C6_CorruptSnapshotIsMiss ==
    [][\A p \in Callers :
         (/\ ChecksCache(p)
          /\ HoldsUnexpired(req[p].resource.resource_id)
          /\ FromDictRaises(Lookup(memory_cache, req[p].resource.resource_id).data))
         => [req'[p] EXCEPT !.found = "miss"] = AfterCacheGet(req[p], NoneValue, now)]_vars

\* C7: a request that has reached the cache write returns its Resource: it
\* never ends in Failed.
C7_WriteFailureContained ==
    \A p \in Callers :
       req[p].pc = "Failed" => "CacheWrite" \notin Range(req[p].trace)

----------------------------------------------------------------------------
(* Properties of bulk_rate_resources *)

\* rate_resource on input alone, on an empty cache, returns a Resource
RatesAlone(input) ==
    LET a == Receive(IdleReq, input, TRUE, 0, 1)
        b == IF a.pc = "MetricsGathering" THEN AfterCollectMetrics(a) ELSE a
        c == IF b.pc = "Scoring" THEN AfterCalculateRating(b, 0) ELSE b
    IN c.pc = "CacheWrite" /\ JsonDumpsOk(ToDict(c.resource))

\* the elements of s that satisfy Test, in order
RECURSIVE SelectIds(_)
SelectIds(s) ==
    IF s = <<>> THEN <<>>
    ELSE IF RatesAlone(Head(s))
         THEN <<Head(s).dict.resource_id>> \o SelectIds(Tail(s))
         ELSE SelectIds(Tail(s))

\* C3: for every input list and every batch size >= 1, bulk_rate_resources
\* returns exactly the inputs that rate successfully on their own, in input
\* order: a failing item is skipped alone.
C3_FailingItemSkippedAlone ==
    (bulk.pc = "Returned" /\ bulk.batch_size >= 1)
    => [i \in 1..Len(bulk.rated_resources) |-> bulk.rated_resources[i].resource_id]
          = SelectIds(bulk.resources)

\* C4: bulk_rate_resources never propagates an exception to its caller, for
\* every input list and every batch size argument.
C4_BulkNeverRaises == bulk.pc # "Raised"

----------------------------------------------------------------------------
(* Properties of the store *)

\* C8: get(key) returns the stored value if and only if the store holds an
\* entry for key whose expiry is strictly later than now; if the entry is held
\* but its expiry is now or earlier, get returns None, and afterwards the entry
\* is neither in memory nor is its data file in the directory.
C8_GetIffUnexpired ==
    [][op'.name = "get"
       => LET k == op'.key
          IN /\ (op'.ret # NoneValue) <=> HoldsUnexpired(k)
             /\ HoldsUnexpired(k)
                => /\ op'.ret = Lookup(memory_cache, k).data
                   /\ memory_cache' = memory_cache /\ files' = files
             /\ (HasKey(memory_cache, k) /\ ~HoldsUnexpired(k))
                => /\ ~HasKey(memory_cache', k)
                   /\ k \notin DOMAIN files'
                   /\ StoreGet(memory_cache', files', k, now).ret = NoneValue]_vars

\* a get has found an entry at the very time of its expiry and removed it
C8_Witness ==
    /\ op.name = "get" /\ op.ret = NoneValue /\ op.evicted = <<op.key>>
    /\ op.key \in DOMAIN inserted
    /\ now \in {TickHours, ExpireHours}

\* the sum of the sizes f holds
RECURSIVE SumSizes(_)
SumSizes(f) ==
    IF DOMAIN f = {} THEN 0
    ELSE LET k == CHOOSE x \in DOMAIN f : TRUE
         IN f[k] + SumSizes([x \in (DOMAIN f) \ {k} |-> f[x]])

\* C9: after every completed set, the aggregate serialised size of the entries
\* the store holds is at most the byte budget; and when the values inserted so
\* far are larger than the budget in aggregate, some inserted key is no longer
\* retrievable.
C9_SizeWithinBudget ==
    (op.name = "set" /\ ~op.raised)
    => /\ GetCacheSize(memory_cache) <= MaxSizeBytes
       /\ SumSizes(inserted) > MaxSizeBytes
          => \E k \in DOMAIN inserted : ~HoldsUnexpired(k)

\* a set has evicted an entry, and the values inserted are larger than the
\* budget in aggregate
C9_Witness ==
    /\ op.name = "set" /\ ~op.raised /\ op.evicted # <<>>
    /\ SumSizes(inserted) > MaxSizeBytes
    /\ memory_cache # <<>>

\* the expiry of the entry a set step evicted: the one set before the step, or
\* the one the step itself assigned
ExpiryBefore(k) ==
    IF k = op'.key THEN now + op'.expire_hours ELSE Lookup(memory_cache, k).expiry

\* the size of the entry a set step evicted
SizeBefore(k) ==
    IF k = op'.key THEN JsonLen(op'.value) ELSE JsonLen(Lookup(memory_cache, k).data)

\* the sizes of the entries a set step evicted, from the n-th on
RECURSIVE EvictedSize(_, _)
EvictedSize(evicted, n) ==
    IF n > Len(evicted) THEN 0
    ELSE SizeBefore(evicted[n]) + EvictedSize(evicted, n + 1)

\* C10: a set evicts only when the aggregate size exceeds the budget, evicts in
\* ascending order of expiry, and stops as soon as the aggregate size is within
\* the budget: no entry that remains expires strictly earlier than an evicted
\* one, every eviction found the store over budget, and a set that leaves the
\* store within budget evicts nothing.
C10_EvictionOrder ==
    [][(op'.name = "set" /\ ~op'.raised)
       => LET ev == op'.evicted
          IN /\ \A i, j \in 1..Len(ev) :
                    i < j => ExpiryBefore(ev[i]) <= ExpiryBefore(ev[j])
             /\ \A i \in 1..Len(ev), n \in 1..Len(memory_cache') :
                    memory_cache'[n].expiry >= ExpiryBefore(ev[i])
             /\ \A i \in 1..Len(ev) :
                    GetCacheSize(memory_cache') + EvictedSize(ev, i) > MaxSizeBytes
             /\ \A i \in 1..Len(ev) : ~HasKey(memory_cache', ev[i])
             /\ ev = <<>>
                => memory_cache' = Assign(memory_cache, op'.key, op'.value,
                                          now + op'.expire_hours)]_vars

\* a set has evicted one entry, the first to expire, and has stopped with two
\* entries left in the store, exactly at the budget
C10_Witness ==
    /\ op.name = "set" /\ Len(op.evicted) = 1
    /\ Len(memory_cache) = 2
    /\ op.evicted[1] # op.key
    /\ GetCacheSize(memory_cache) = MaxSizeBytes

----------------------------------------------------------------------------
(* Properties of the store across restarts *)

\* the entries of mc that have not expired at time t
UnexpiredOf(mc, t) == {mc[i] : i \in {j \in 1..Len(mc) : mc[j].expiry > t}}

\* C11: without I/O failure, a store constructed on the directory of an old
\* store holds exactly the entries that were in the old store's memory and are
\* unexpired, with the same values and expiries.
C11_RestartEquivalence ==
    [][(op'.name = "load" /\ disk = "ok" /\ index.state # "corrupt")
       => Range(memory_cache') = UnexpiredOf(memory_cache, now)]_vars

\* C12: when the index file cannot be parsed, the construction of the store
\* completes and the store starts with no entry in memory, in the state of a
\* store constructed on an empty directory; and on every store, restarted or
\* not, a set that returns and keeps its entry makes get return the value.
C12_CorruptIndexNotFatal ==
    [][/\ (op'.name = "load" /\ index.state = "corrupt")
          => /\ memory_cache' = <<>>
             /\ GetCacheSize(memory_cache') = 0
             /\ files' = EmptyDir.files /\ index' = EmptyDir.index
       /\ (op'.name = "set" /\ ~op'.raised /\ op'.key \notin Range(op'.evicted))
          => StoreGet(memory_cache', files', op'.key, now).ret = op'.value]_vars

\* a store has just been constructed on a directory whose index cannot be
\* parsed and which holds the data file of an unexpired entry
C12_Witness ==
    /\ op.name = "load" /\ op.ret = Str("corrupt")
    /\ disk = "ok" /\ calls = 1 /\ now = 0
    /\ inserted # EmptyDict
    /\ memory_cache = <<>>

\* the keys the index file lists
IndexKeys(idx) == {idx.entries[i].key : i \in 1..Len(idx.entries)}

\* C13: after delete(key) the entry is neither in memory nor is its data file
\* in the directory, and, the index write succeeding, the index does not list
\* it; get(key) returns None; the other entries are untouched.  delete of a
\* key the store does not hold changes neither memory nor the directory, so a
\* second delete has no further effect.
C13_DeleteRemoves ==
    [][op'.name = "delete"
       => LET k == op'.key
          IN /\ ~HasKey(memory_cache', k)
             /\ k \notin DOMAIN files'
             /\ StoreGet(memory_cache', files', k, now).ret = NoneValue
             /\ Range(memory_cache') = {e \in Range(memory_cache) : e.key # k}
             /\ \A f \in (DOMAIN files) \ {k} : f \in DOMAIN files' /\ files'[f] = files[f]
             /\ (HasKey(memory_cache, k) /\ disk = "ok")
                => index'.state = "ok" /\ IndexKeys(index') = KeysOf(memory_cache')
             /\ ~HasKey(memory_cache, k)
                => memory_cache' = memory_cache /\ files' = files /\ index' = index
             /\ \A o \in WriteOutcomes :
                   StoreDelete(memory_cache', files', index', k, o)
                     = [memory_cache |-> memory_cache', files |-> files',
                        index |-> index']]_vars

\* a delete has removed an entry whose data file was written, and has left
\* another entry in the store
C13_Witness ==
    /\ op.name = "delete" /\ op.evicted = <<op.key>>
    /\ disk = "ok"
    /\ memory_cache # <<>>
    /\ index.state = "ok" /\ IndexKeys(index) = KeysOf(memory_cache)

\* C14: after clear() the memory is empty, the cache size is 0, the directory
\* holds no data file and no index entry, and get returns None for every key
\* the store held, had a file for, listed in its index or was ever given.
C14_ClearEmpties ==
    [][op'.name = "clear"
       => /\ memory_cache' = <<>>
          /\ GetCacheSize(memory_cache') = 0
          /\ \A k \in KeysOf(memory_cache) \cup DOMAIN files \cup IndexKeys(index)
                       \cup DOMAIN inserted :
                /\ k \notin DOMAIN files'
                /\ k \notin IndexKeys(index')
                /\ StoreGet(memory_cache', files', k, now).ret = NoneValue
          /\ DOMAIN files' = {} /\ index'.entries = <<>>]_vars

\* a clear has emptied a store that held two entries with their data files
C14_Witness ==
    /\ op.name = "clear" /\ Len(op.evicted) = 2
    /\ disk = "ok"
    /\ Cardinality(DOMAIN inserted) = 2
    /\ memory_cache = <<>>

\* thread p is inside "with self.cache_lock"
InLock(p) == thr.th[p].pc \notin {"idle", "wait"}

\* the store that the operation of thread record me leaves, and what it
\* returns, when it runs alone on the store it found when it took the lock
RunsAlone(me, st) ==
    LET S == me.snap
    IN CASE me.name = "get" ->
              LET g == StoreGet(S.memory_cache, S.files, me.key, me.t)
              IN /\ st = [memory_cache |-> g.memory_cache, files |-> g.files,
                          index |-> S.index]
                 /\ me.ret = g.ret
         [] me.name = "set" ->
              \E io \in Outcomes, xo \in Outcomes :
                 LET s == StoreSet(S.memory_cache, S.files, S.index, me.key, me.value,
                                   me.expire_hours, me.t, io, xo)
                 IN /\ st = [memory_cache |-> s.memory_cache, files |-> s.files,
                             index |-> s.index]
                    /\ me.ret = NoneValue
         [] me.name = "delete" ->
              \E xo \in Outcomes :
                 /\ st = StoreDelete(S.memory_cache, S.files, S.index, me.key, xo)
                 /\ me.ret = NoneValue
         [] me.name = "clear" -> st = StoreClear /\ me.ret = NoneValue
         [] OTHER -> FALSE

\* C15: get, set, delete and clear_cache run wholly under the one lock: at
\* most one thread is inside an operation, and it holds the lock; whenever a
\* thread leaves an operation, the store and the value returned are those of
\* the operation run alone on the store found when the lock was taken, so the
\* concurrent run equals the sequential run in the order of lock taking; no
\* operation raises.
C15_Linearizable ==
    [][/\ \A p \in Threads :
            (thr.th[p].pc = "release" /\ thr'.th[p].pc = "idle")
            => /\ RunsAlone(thr.th[p], Store)
               /\ ~thr.th[p].raised
       /\ \A p, q \in Threads :
            /\ (InLock(p) /\ InLock(q)) => p = q
            /\ InLock(p) => thr.lock = p]_vars

\* one thread is in the middle of a set, the entry assigned in memory and
\* the index not yet saved, while the other waits for the lock to get the
\* same key
C15_Witness ==
    \E p, q \in Threads :
       /\ thr.th[p].pc = "set_index" /\ thr.lock = p
       /\ HasKey(memory_cache, thr.th[p].key)
       /\ thr.th[q].pc = "wait" /\ thr.th[q].name = "get"
       /\ thr.th[q].key = thr.th[p].key

\* the fields of the input of rate_resource, as a dict
FieldsOf(input) == IF IsResource(input) THEN ToDict(input).dict ELSE input.dict

\* the input has a missing or ill-typed required field, a url or a date that
\* is syntactically invalid, or lacks required metadata
InvalidInput(input) ==
    LET d == FieldsOf(input)
    IN \/ ~(RequiredKeys \subseteq DOMAIN d)
       \/ \E f \in RequiredKeys \ {"metadata"} : ~IsStr(d[f])
       \/ ~IsDict(d.metadata)
       \/ ~UrlPatternMatches(d.url.str)
       \/ ~DateParses(d.publication_date.str)
       \/ ValidateMetadata(d.metadata) # {}

\* C16: a request whose input is invalid ends in Failed with ValueError, and
\* neither metrics gathering nor scoring nor a cache write is done for it.
C16_InvalidInputFailsValueError ==
    \A p \in Callers :
       (req[p].pc # "Idle" /\ InvalidInput(req[p].input))
       => /\ req[p].pc \in {"CacheCheck", "Failed"}
          /\ req[p].pc = "Failed" => req[p].error = "ValueError"
          /\ Range(req[p].trace) \cap {"MetricsGathering", "Scoring", "CacheWrite"} = {}

\* the step of caller p in which _collect_metrics or _calculate_rating raises
FailingStep(p) ==
    /\ req'[p] # req[p]
    /\ \/ req[p].pc = "MetricsGathering" /\ CollectMetricsRaises(req[p].resource)
       \/ req[p].pc = "Scoring" /\ CalculateRatingRaises(req[p].resource)

FinalScorePresent == res # NoneValue /\ res.resource.final_score # NoScore

\* C18: the final score of a Resource, once set by set_final_score or by a
\* rating, lies between 1 and 10.
C18_FinalScoreRange ==
    FinalScorePresent
    => (1 * Scale <= res.resource.final_score /\ res.resource.final_score <= 10 * Scale)

\* C19: every value of the scores map of a Resource lies between 0 and 10;
\* update_score stores a value below 0 as 0, a value above 10 as 10, and a
\* value in between as it is.
C19_ScoreRange ==
    [][/\ res' # NoneValue
          => \A c \in DOMAIN res'.resource.scores :
                0 <= res'.resource.scores[c] /\ res'.resource.scores[c] <= 10 * Scale
       /\ op'.name = "update_score"
          => LET given == op'.value.num
                 stored == res'.resource.scores[op'.value.str]
             IN /\ given < 0 => stored = 0
                /\ given > 10 * Scale => stored = 10 * Scale
                /\ (0 <= given /\ given <= 10 * Scale) => stored = given]_vars

\* C20: whenever a Resource has a final score, its scores map has exactly
\* the five criteria as keys.
C20_FiveCriteriaWithFinalScore ==
    FinalScorePresent => DOMAIN res.resource.scores = Criteria

\* the call of calculate_final_score made and the score map it was given
FinalScoreCall == calc.fn = "calculate_final_score" /\ calc.pc # "called"

\* C21: calculate_final_score raises ValueError, and returns no score, exactly
\* when the score map lacks one or more of the five criteria, whichever they
\* are.
C21_MissingCriterionRaises ==
    FinalScoreCall
    => LET scores == calc.args[1]
       IN IF Criteria \ DOMAIN scores # {}
          THEN calc.pc = "raised" /\ calc.raised = "ValueError" /\ calc.ret = NoScore
          ELSE calc.pc = "returned" /\ calc.ret # NoScore

\* calculate_final_score has raised on a map that lacks clarity alone
C21_Witness ==
    /\ FinalScoreCall /\ calc.pc = "raised"
    /\ DOMAIN calc.args[1] = Criteria \ {"clarity"}

\* the modifier m of the formula: bonus, penalty and the bonus for 500 reviews
\* or more, each on its own
ClaimedModifier(scores, review_count) ==
      (IF \E c \in Criteria : 10 * scores[c] >= 95 * Scale THEN Scale \div 2 ELSE 0)
    + (IF \E c \in Criteria : scores[c] <= 3 * Scale THEN 0 - (Scale \div 2) ELSE 0)
    + (IF review_count >= 500 * Scale THEN Scale \div 5 ELSE 0)

\* C22: on a map of the five criteria calculate_final_score returns
\* 0.25 relevance + 0.20 authority + 0.20 engagement + 0.15 clarity
\* + 0.20 impact + m, brought into [1, 10]; bonus and penalty may both apply;
\* five scores of 10 give 10.0 and five scores of 0 give 1.0.
C22_FinalScoreFormula ==
    (FinalScoreCall /\ calc.pc = "returned")
    => LET scores == calc.args[1]
           weighted == (25 * scores.relevance + 20 * scores.authority
                        + 20 * scores.engagement + 15 * scores.clarity
                        + 20 * scores.impact) \div 100
           claimed == weighted + ClaimedModifier(scores, calc.args[2])
       IN /\ calc.ret = IF claimed < 1 * Scale THEN 1 * Scale
                        ELSE IF claimed > 10 * Scale THEN 10 * Scale ELSE claimed
          /\ (\A c \in Criteria : scores[c] = 10 * Scale) => calc.ret = 10 * Scale
          /\ (\A c \in Criteria : scores[c] = 0) => calc.ret = 1 * Scale

\* calculate_final_score has returned for a map in which bonus and penalty
\* both apply and cancel, with 500 reviews: 0.25 * 9.5 + 0.20 * 3.0 + 0.55 * 3.1
\* + 0.2
C22_Witness ==
    /\ FinalScoreCall /\ calc.pc = "returned"
    /\ calc.args[1] = [relevance |-> (95 * Scale) \div 10, authority |-> 3 * Scale,
                       engagement |-> (31 * Scale) \div 10,
                       clarity |-> (31 * Scale) \div 10, impact |-> (31 * Scale) \div 10]
    /\ calc.args[2] = 500 * Scale
    /\ calc.ret = 488

\* the final score of a forced rating of input at time 0, the first reading of
\* the clock, whatever the cache holds
ReferenceScore(input) ==
    LET received == Receive(IdleReq, input, TRUE, 0, 0)
        collected == AfterCollectMetrics(received)
        scores == RatingScores(collected.resource.rating_metadata)
        review_count == DictGet(collected.resource.metadata.dict, "review_count",
                                Num(0)).num
    IN Min(10 * Scale, Max(0, CalculateFinalScore(scores, review_count)))

CriterionFunctions ==
    {"calculate_relevance", "calculate_authority", "calculate_engagement",
     "calculate_clarity", "calculate_impact"}

\* C24: a criterion function returns 0.0 when its denominator (total_keywords,
\* max_authority, max_engagement, max_clarity, max_impact) is zero, and a
\* value between 0 and 10 for every other input.
C24_CriterionRange ==
    (calc.fn \in CriterionFunctions /\ calc.pc = "returned")
    => /\ calc.args[Len(calc.args)] = 0 => calc.ret = 0
       /\ 0 <= calc.ret /\ calc.ret <= 10 * Scale

\* the identifier was generated, not supplied by the caller
Generated(id) == id[1] = ""

\* C25: a Resource created without an identifier from the same title and url
\* as an earlier one gets the same resource_id; and the resource_id of a
\* Resource does not change under update_score, set_final_score or a rating.
C25_StableIdentity ==
    [][/\ (/\ op'.name \in {"construct", "from_dict"}
           /\ res # NoneValue
           /\ Generated(res.resource.resource_id)
           /\ Generated(res'.resource.resource_id)
           /\ res'.resource.title = res.resource.title
           /\ res'.resource.url = res.resource.url)
          => res'.resource.resource_id = res.resource.resource_id
       /\ op'.name \in {"update_score", "set_final_score", "set"}
          => res'.resource.resource_id = res.resource.resource_id]_vars

\* C26: set of a value json cannot serialise raises to its caller.
C26_UnserializableSetRaises ==
    [][(op'.name = "set" /\ ~JsonDumpsOk(op'.value)) => op'.raised]_vars

\* a set of a function has raised on a store whose writes succeed and which
\* held nothing else
C26_Witness ==
    /\ op.name = "set" /\ op.value = NotSerializable /\ op.raised
    /\ disk = "ok"
    /\ KeysOf(memory_cache) = {op.key}

\* a snapshot with the five criterion scores, a final score and last_rated
Complete(v) ==
    /\ IsDict(v)
    /\ {"scores", "final_score", "last_rated"} \subseteq DOMAIN v.dict
    /\ Criteria \subseteq DOMAIN v.dict.scores
    /\ v.dict.final_score # NoScore
    /\ v.dict.last_rated # PyNone

\* C27: every snapshot rate() hands to the store, and every entry and every
\* readable data file that a step of rate() puts into the store, holds the
\* five criterion scores, the final score and last_rated; no other step of
\* rate() adds or changes an entry.
C27_NeverPartiallyCached ==
    [][op'.name # "load" /\ op' # NoOp =>
         /\ op'.name = "set" => Complete(op'.value)
         /\ \A e \in Range(memory_cache') \ Range(memory_cache) :
               op'.name = "set" /\ e.key = op'.key /\ Complete(e.data)
         /\ \A k \in DOMAIN files' :
               (k \notin DOMAIN files \/ files'[k] # files[k]) /\ files'[k] # Unparseable
                  => op'.name = "set" /\ k = op'.key /\ Complete(files'[k].data)]_vars

\* a request has written its snapshot: the entry in memory and the data file
\* are complete
C27_Witness ==
    /\ op.name = "set" /\ op.by \in Callers /\ ~op.raised
    /\ \E e \in Range(memory_cache) : e.key = op.key /\ Complete(e.data)
    /\ op.key \in DOMAIN files /\ files[op.key] # Unparseable
    /\ Complete(files[op.key].data)

\* the data the cache mc holds under key k, one element per entry
EntryData(mc, k) == {mc[i].data : i \in {j \in 1..Len(mc) : mc[j].key = k}}

\* the entries of the cache mc under key k
EntriesOf(mc, k) == {i \in 1..Len(mc) : mc[i].key = k}

\* both threads have missed, recomputed and returned
BothRecomputed ==
    \A p \in Threads : req[p].pc = "Done" /\ req[p].found = "miss"

\* the state once both threads have recomputed: one entry for the identity,
\* the complete snapshot of one of the two results and of the last set, its
\* data file the same where the disk takes writes; both results complete
RaceOutcome ==
    BothRecomputed =>
      LET k == req[1].result.resource_id
      IN /\ \A p \in Threads : req[p].result.resource_id = k
         /\ \A p \in Threads : Complete(ToDict(req[p].result))
         /\ Cardinality(EntriesOf(memory_cache, k)) = 1
         /\ \A d \in EntryData(memory_cache, k) :
               /\ Complete(d)
               /\ d \in {ToDict(req[p].result) : p \in Threads}
               /\ op.name = "set" => d = op.value
               /\ disk = "ok" => k \in DOMAIN files /\ files[k] = JsonText(d)

Computing(rq) == rq.pc \in {"MetricsGathering", "Scoring"}

\* C29: a thread holds the lock of the store exactly while it is inside get
\* or set, called from the cache check or the cache write of its request;
\* a request in metrics gathering or scoring holds no lock and is in no store
\* operation, and a thread waiting for the lock while the other request
\* computes finds the lock free.
C29_NoLockWhileComputing ==
    \A p \in Threads :
       /\ thr.lock = p <=> InLock(p)
       /\ InLock(p) =>
             \/ req[p].pc = "CacheCheck" /\ thr.th[p].name = "get"
             \/ req[p].pc = "CacheWrite" /\ thr.th[p].name = "set"
       /\ Computing(req[p]) => thr.lock # p /\ thr.th[p] = IdleThread
       /\ \A q \in Threads \ {p} :
             Computing(req[p]) /\ thr.th[q].pc = "wait" => LockAvailable(thr.lock)

\* one request is scoring while the other thread holds the lock inside its
\* set
C29_Witness ==
    \E p \in Threads, q \in Threads :
       req[p].pc = "Scoring" /\ thr.lock = q /\ thr.th[q].pc = "set_item"

\* the stages of a request with force_refresh that computes a rating and
\* returns it: the cache is not asked
ForcedTrace == <<"Received", "MetricsGathering", "Scoring", "CacheWrite", "Done">>

\* s is the beginning of t
IsPrefix(s, t) == Len(s) <= Len(t) /\ s = SubSeq(t, 1, Len(s))

\* the trace tr runs along one of the paths, or along one of them up to a
\* stage before Done and from there to Failed
RunsAlong(tr, paths) ==
    \E path \in paths :
       \/ IsPrefix(tr, path)
       \/ /\ Len(tr) >= 2 /\ tr[Len(tr)] = "Failed"
          /\ Len(tr) - 1 < Len(path)
          /\ IsPrefix(SubSeq(tr, 1, Len(tr) - 1), path)

\* a request in a terminal state is in exactly one: Done with a Resource and
\* no error, or Failed with the error and no Resource
TerminalState(rq) ==
    /\ rq.pc = "Done" => IsResource([resource |-> rq.result]) /\ rq.error = ""
    /\ rq.pc = "Failed" => rq.error # "" /\ rq.result = NoneValue
    /\ \A i \in 1..Len(rq.trace) :
          rq.trace[i] \in {"Done", "Failed"} => i = Len(rq.trace) /\ rq.pc = rq.trace[i]
    /\ rq.pc \in {"Done", "Failed"} => rq.trace # <<>> /\ rq.trace[Len(rq.trace)] = rq.pc

\* a set made for a request comes after its scoring has completed
WriteAfterScoring ==
    op.name = "set" /\ op.by \in Callers =>
       LET tr == req[op.by].trace
       IN /\ Len(tr) >= 4
          /\ SubSeq(tr, Len(tr) - 3, Len(tr) - 1) = <<"MetricsGathering", "Scoring", "CacheWrite">>
          /\ Complete(op.value)

\* every request goes Received, CacheCheck and then Done or on through
\* MetricsGathering, Scoring, CacheWrite to Done, whether forced or not
C30_EveryRequestChecksCache ==
    \A p \in Callers :
       req[p].pc # "Idle" => RunsAlong(req[p].trace, {FullTrace, CachedTrace})

\* C30: a request without force_refresh goes Received, CacheCheck and then
\* Done on a fresh hit, or on through MetricsGathering, Scoring, CacheWrite to
\* Done; a request with force_refresh goes from Received to MetricsGathering
\* without a cache check; from every stage before Done a request may go to
\* Failed instead.  Every request ends, in exactly one of Done with a Resource
\* or Failed with the error, and a set is made only after scoring completed.
C30_RequestStateMachine ==
    /\ [](\A p \in Callers :
            /\ req[p].pc # "Idle" =>
                  RunsAlong(req[p].trace,
                            IF req[p].force_refresh THEN {ForcedTrace}
                            ELSE {FullTrace, CachedTrace})
            /\ TerminalState(req[p]))
    /\ []WriteAfterScoring
    /\ \A p \in Callers :
          (req[p].pc \notin Resting) ~> (req[p].pc \in {"Done", "Failed"})

\* a request with force_refresh has gone through every stage but the cache
\* check and returned, its snapshot written
C30_Witness ==
    \E p \in Callers :
       /\ req[p].pc = "Done" /\ req[p].force_refresh
       /\ req[p].trace = ForcedTrace
       /\ op.name = "set" /\ op.by = p

\* C31: a request with force_refresh never asks the cache: none of its steps
\* is a get, it never is in CacheCheck, and when it returns it has gone through
\* validation, metrics gathering and scoring, whatever the cache held; its
\* cache write, when set does not raise, leaves the entry of its identity
\* with the new snapshot and the expiry now + 24 hours.
C31_ForceRefreshBypassesCache ==
    [][\A p \in Callers :
         /\ (req'[p] # req[p] /\ req'[p].force_refresh /\ req'[p].pc # "Idle")
            => /\ "CacheCheck" \notin Range(req'[p].trace)
               /\ req'[p].found = ""
               /\ op'.name # "get"
               /\ req'[p].pc = "Done" => req'[p].trace = ForcedTrace
         /\ (req[p].force_refresh /\ req[p].pc = "CacheWrite" /\ req'[p].pc = "Done")
            => /\ op'.name = "set" /\ op'.key = req[p].resource.resource_id
               /\ HasKey(memory_cache', op'.key)
               /\ Lookup(memory_cache', op'.key) =
                     [key |-> op'.key, data |-> ToDict(req[p].resource),
                      expiry |-> now + ExpireHours]
               /\ req'[p].result = req[p].resource]_vars

\* C32: a get that returns a value leaves memory (values, expiries, order),
\* data files and index as they were and removes nothing, and a get of the
\* same key at any later time before the expiry of the entry returns the same
\* value.
C32_HitNonDestructive ==
    [][(op'.name = "get" /\ op'.ret # NoneValue)
       => /\ memory_cache' = memory_cache
          /\ files' = files
          /\ index' = index
          /\ op'.evicted = <<>>
          /\ \A t \in now..MaxTime :
                t < Lookup(memory_cache, op'.key).expiry
                   => StoreGet(memory_cache', files', op'.key, t).ret = op'.ret]_vars

\* a get has returned a value from a store that holds another entry as well,
\* an hour before the expiry of the entry and after the clock advanced
C32_Witness ==
    /\ op.name = "get" /\ op.ret # NoneValue
    /\ Cardinality(KeysOf(memory_cache)) >= 2
    /\ index.state = "ok"
    /\ now > 0 /\ now < Lookup(memory_cache, op.key).expiry

\* the entries the index file lists, when it can be parsed
Indexed == IF index.state = "ok" THEN Range(index.entries) ELSE {}

\* the data file of key k is in the directory and json can parse it
Readable(k) == k \in DOMAIN files /\ ~JsonLoadRaises(files[k])

\* the entry e of the index is in the store after the load, with its data
\* file, the expiry the index records and the value of the data file
Loaded(e) ==
    /\ HasKey(memory_cache', e.key)
    /\ Lookup(memory_cache', e.key) =
          [key |-> e.key, data |-> JsonLoad(files[e.key]),
           expiry |-> FromIsoFormat(e.expiry)]
    /\ StoreGet(memory_cache', files', e.key, now).ret = JsonLoad(files[e.key])

\* C33: on load every indexed entry whose recorded expiry is now or earlier
\* is not placed in memory and its data file is deleted, and every indexed
\* entry whose expiry is later than now and whose data file is readable is
\* placed in memory with the recorded expiry.
C33_LoadDropsExpiredKeepsLive ==
    [][op'.name = "load"
       => \A e \in Indexed :
             /\ FromIsoFormat(e.expiry) <= now
                => ~HasKey(memory_cache', e.key) /\ e.key \notin DOMAIN files'
             /\ (FromIsoFormat(e.expiry) > now /\ Readable(e.key)) => Loaded(e)]_vars

\* C38: when the data file of an indexed key cannot be parsed at load, that
\* key is absent from the new store, and every other indexed entry that has
\* not expired and has a readable data file is loaded and retrievable.
C38_UnparseableEntryIsAbsence ==
    [][(op'.name = "load"
          /\ \E c \in Indexed : c.key \in DOMAIN files /\ ~Readable(c.key))
       => \A e \in Indexed :
             /\ (e.key \in DOMAIN files /\ ~Readable(e.key))
                => ~HasKey(memory_cache', e.key)
             /\ (FromIsoFormat(e.expiry) > now /\ Readable(e.key)) => Loaded(e)]_vars

\* C34: after a set that does not raise, with a lifetime above 0 and a value
\* whose own size is within the byte budget, a get of the key at the same
\* time returns the value, and the entry of the key carries the value and the
\* expiry now + lifetime, whatever the store held before.
C34_ReadYourWrite ==
    [][(op'.name = "set" /\ ~op'.raised /\ op'.expire_hours > 0
          /\ JsonLen(op'.value) <= MaxSizeBytes)
       => /\ StoreGet(memory_cache', files', op'.key, now).ret = op'.value
          /\ HasKey(memory_cache', op'.key)
          /\ Lookup(memory_cache', op'.key).data = op'.value
          /\ Lookup(memory_cache', op'.key).expiry = now + op'.expire_hours]_vars

\* C35: snapshot isolation. Once rate() has written a Resource to the cache,
\* a caller that writes to a Resource it holds (the one it passed to rate(),
\* the one rate() returned, the one a cache hit returned) with update_score or
\* set_final_score does not change what a later get, and so a later cache-hit
\* rate(), returns for any key.
C35_SnapshotIsolation ==
    [][(op'.name \in {"update_score", "set_final_score"} /\ res # NoneValue)
       => \A k \in KeysOf(memory_cache) :
             StoreGet(memory_cache', files', k, now').ret
                = StoreGet(memory_cache, files, k, now).ret]_vars

\* C36: a set that raises leaves the store as it was before the call: the
\* memory is unchanged and does not hold the key, and afterwards
\* get_cache_size and get_cache_stats do not raise and a set of a
\* serialisable value under any key does not raise.
C36_FailedPutLeavesStore ==
    [][(op'.name = "set" /\ op'.raised)
       => /\ memory_cache' = memory_cache
          /\ ~HasKey(memory_cache', op'.key)
          /\ ~SizeRaises(memory_cache')
          /\ \A k \in RestartKeys, value \in RestartValues \ {NotSerializable} :
                ~StoreSet(memory_cache', files', index', k, value, ExpireHours, now',
                          "ok", "ok").raised]_vars

\* C37: get_cache_stats running concurrently with the operations of the
\* store never fails, and the item count, the size and the expired count it
\* returns describe the memory of one single instant of the call, the expired
\* count being the number of entries present whose expiry is not after now.
C37_StatsConsistentSnapshot ==
    [][\A p \in Threads :
          (thr.th[p].name = "stats" /\ thr.th[p].pc = "return" /\ thr'.th[p].pc = "idle")
          => /\ ~op'.raised
             /\ \E i \in 1..Len(thr.th[p].data) :
                   op'.ret = StatsOf(thr.th[p].data[i].memory_cache, thr.th[p].data[i].t)]_vars

\* C39: score consistency. When rate() returns a Resource, whatever the
\* metric signals of the input (negative and out-of-range ones included), its
\* final_score is calculate_final_score of its own stored scores map and its
\* review count, and rating_metadata.score_breakdown is that stored scores map.
C39_ScoreConsistency ==
    [][\A p \in Callers :
          (req[p].pc # "Done" /\ req'[p].pc = "Done")
          => LET r == req'[p].result
                 review_count == DictGet(r.metadata.dict, "review_count", Num(0)).num
             IN /\ r.final_score = CalculateFinalScore(r.scores, review_count)
                /\ r.rating_metadata.score_breakdown = r.scores]_vars

====
